---- MODULE Spec2Model ----
(***************************************************************************)
(* State-machine model of the chat backend (MuadhAli/openai_orchestration). *)
(*                                                                         *)
(* Each subsystem has its own specification over its own variables; the    *)
(* variables of the other subsystems keep their construction-time values.  *)
(*   SpecVR     app/repositories/vector_repository.py  (VectorRepository)  *)
(*   SpecRetry  app/services/chat_service.py (_call_openai_api_with_retry) *)
(*   SpecLegacy app/services/chat_service.py (_legacy_send_message)        *)
(*   SpecCtx    app/services/context_service.py (combine_context)          *)
(*   SpecDB     sessions/messages tables, their repositories and services, *)
(*              and app/services/rag_chat_service.py                       *)
(***************************************************************************)
EXTENDS Integers, Sequences, FiniteSets, TLC

VARIABLES
    repo,          \* VectorRepository instance and the two stores behind it
    vlast,         \* observation of the last VectorRepository call
    fb_ops,        \* operations that have fallen back after a vector-store failure
    rt,            \* one _call_openai_api_with_retry invocation
    conversations, \* ChatService.conversations: id -> message roles, oldest first
    lg,            \* observation of the last _legacy_send_message call
    cx,            \* one combine_context invocation
    sessions,      \* sessions table: id -> name
    messages,      \* messages table, in timestamp order
    db_seq,        \* ids handed out so far for sessions and messages
    rc,            \* observation of the last sessions/messages/RAG-chat call
    tl,            \* one tool call given to the insurance client and to the tool server
    orch,          \* one OrchestratorService.route_query call
    opt,           \* one ContextOptimizationService.optimize_context call
    sv,            \* the process-wide rag_service and context_service globals
    hc,            \* the GET /api/health requests answered so far
    ck,            \* one EmbeddingService.chunk_text call
    race,          \* concurrent process_chat_message calls on one session
    md,            \* one stored document, its metadata and the last call on it
    th,            \* message rows with their parent and thread ids
    bp,            \* the prompt of a RAG chat turn on one session
    cp,            \* the prompt rendered from a conversation context
    cn             \* connection and cursor of one insurance tool call

vars == <<repo, vlast, fb_ops, rt, conversations, lg, cx, sessions, messages, db_seq, rc, tl, orch, opt, sv, hc, ck, race, md, th, bp, cp, cn>>

varsVR     == <<repo, vlast, fb_ops>>
varsRetry  == <<rt>>
varsLegacy == <<conversations, lg>>
varsCtx    == <<cx>>
varsDB     == <<sessions, messages, db_seq, rc>>
varsTool == <<tl>>
varsOrch == <<orch>>
varsOpt == <<opt>>
varsSvc == <<sv>>
varsHealth == <<hc>>
varsChunk == <<ck>>
varsRace == <<race>>
varsMeta == <<md>>
varsThread == <<th>>
varsPrompt == <<bp>>
varsCtxPrompt == <<cp>>
varsConn == <<cn>>

othersVR     == <<varsRetry, varsLegacy, varsCtx, varsDB, varsTool, varsOrch, varsOpt, varsSvc, varsHealth, varsChunk, varsRace, varsMeta, varsThread, varsPrompt, varsCtxPrompt, varsConn>>
othersRetry  == <<varsVR, varsLegacy, varsCtx, varsDB, varsTool, varsOrch, varsOpt, varsSvc, varsHealth, varsChunk, varsRace, varsMeta, varsThread, varsPrompt, varsCtxPrompt, varsConn>>
othersLegacy == <<varsVR, varsRetry, varsCtx, varsDB, varsTool, varsOrch, varsOpt, varsSvc, varsHealth, varsChunk, varsRace, varsMeta, varsThread, varsPrompt, varsCtxPrompt, varsConn>>
othersCtx    == <<varsVR, varsRetry, varsLegacy, varsDB, varsTool, varsOrch, varsOpt, varsSvc, varsHealth, varsChunk, varsRace, varsMeta, varsThread, varsPrompt, varsCtxPrompt, varsConn>>
othersDB     == <<varsVR, varsRetry, varsLegacy, varsCtx, varsTool, varsOrch, varsOpt, varsSvc, varsHealth, varsChunk, varsRace, varsMeta, varsThread, varsPrompt, varsCtxPrompt, varsConn>>
othersTool == <<varsVR, varsRetry, varsLegacy, varsCtx, varsDB, varsOrch, varsOpt, varsSvc, varsHealth, varsChunk, varsRace, varsMeta, varsThread, varsPrompt, varsCtxPrompt, varsConn>>
othersOrch == <<varsVR, varsRetry, varsLegacy, varsCtx, varsDB, varsTool, varsOpt, varsSvc, varsHealth, varsChunk, varsRace, varsMeta, varsThread, varsPrompt, varsCtxPrompt, varsConn>>
othersOpt == <<varsVR, varsRetry, varsLegacy, varsCtx, varsDB, varsTool, varsOrch, varsSvc, varsHealth, varsChunk, varsRace, varsMeta, varsThread, varsPrompt, varsCtxPrompt, varsConn>>
othersSvc == <<varsVR, varsRetry, varsLegacy, varsCtx, varsDB, varsTool, varsOrch, varsOpt, varsHealth, varsChunk, varsRace, varsMeta, varsThread, varsPrompt, varsCtxPrompt, varsConn>>
othersHealth == <<varsVR, varsRetry, varsLegacy, varsCtx, varsDB, varsTool, varsOrch, varsOpt, varsSvc, varsChunk, varsRace, varsMeta, varsThread, varsPrompt, varsCtxPrompt, varsConn>>
othersChunk == <<varsVR, varsRetry, varsLegacy, varsCtx, varsDB, varsTool, varsOrch, varsOpt, varsSvc, varsHealth, varsRace, varsMeta, varsThread, varsPrompt, varsCtxPrompt, varsConn>>
othersRace == <<varsVR, varsRetry, varsLegacy, varsCtx, varsDB, varsTool, varsOrch, varsOpt, varsSvc, varsHealth, varsChunk, varsMeta, varsThread, varsPrompt, varsCtxPrompt, varsConn>>
othersMeta == <<varsVR, varsRetry, varsLegacy, varsCtx, varsDB, varsTool, varsOrch, varsOpt, varsSvc, varsHealth, varsChunk, varsRace, varsThread, varsPrompt, varsCtxPrompt, varsConn>>
othersThread == <<varsVR, varsRetry, varsLegacy, varsCtx, varsDB, varsTool, varsOrch, varsOpt, varsSvc, varsHealth, varsChunk, varsRace, varsMeta, varsPrompt, varsCtxPrompt, varsConn>>
othersPrompt == <<varsVR, varsRetry, varsLegacy, varsCtx, varsDB, varsTool, varsOrch, varsOpt, varsSvc, varsHealth, varsChunk, varsRace, varsMeta, varsThread, varsCtxPrompt, varsConn>>
othersCtxPrompt == <<varsVR, varsRetry, varsLegacy, varsCtx, varsDB, varsTool, varsOrch, varsOpt, varsSvc, varsHealth, varsChunk, varsRace, varsMeta, varsThread, varsPrompt, varsConn>>
othersConn == <<varsVR, varsRetry, varsLegacy, varsCtx, varsDB, varsTool, varsOrch, varsOpt, varsSvc, varsHealth, varsChunk, varsRace, varsMeta, varsThread, varsPrompt, varsCtxPrompt>>

None == "None"

(***************************************************************************)
(* Bounds of the model.                                                    *)
(***************************************************************************)
MaxDocs == 2
MaxBulk == 2

(***************************************************************************)
(* Vector repository.                                                      *)
(*   repo.config_use_chromadb  config.use_chromadb                         *)
(*   repo.use_chromadb         self._use_chromadb                          *)
(*   repo.collection           self._collection is not None                *)
(*   repo.chroma               ids of the documents held by the vector     *)
(*                             store collection                            *)
(*   repo.mysql                ids of the rows of the Embedding table      *)
(*   repo.seq                  number of document ids generated            *)
(* Every call of the vector store, of the embedding service and of the     *)
(* relational database either succeeds or raises; the environment record   *)
(* of a call says which.                                                   *)
(***************************************************************************)
DocIds == 1..MaxDocs

\* __init__ and _initialize_chromadb: the vector store is used only when it
\* is configured, healthy and hands out a collection.
VectorRepositoryInit(config_use, healthy) ==
    [config_use_chromadb |-> config_use,
     use_chromadb        |-> config_use /\ healthy,
     collection          |-> config_use /\ healthy,
     chroma              |-> {},
     mysql               |-> {},
     seq                 |-> 0]

\* The guard "if self._use_chromadb and self._collection".
TryChroma(r) == r.use_chromadb /\ r.collection

\* The value add_document gives self._use_chromadb when ChromaDB add raised.
AddFailureFlagKept(flag) == flag
AddFailureFlag(flag) == FALSE

\* The value search_similar gives self._use_chromadb when the ChromaDB query raised.
SearchFailureFlag(flag) == FALSE

\* The guard of the ChromaDB branch of delete_document.
DeleteTriesChroma(r) == TryChroma(r)

\* What the external calls of one add_document or search_similar do: the
\* embedding service, the vector store, the relational database. When the
\* embedding fails no store is called, so no store outcome is drawn.
AddEnv == {e \in [embed_ok : BOOLEAN, vs_ok : BOOLEAN, db_ok : BOOLEAN] :
              ~e.embed_ok => (e.vs_ok /\ e.db_ok)}

\* add_document: the repository afterwards and what the call did.
\*   ret = "created" (a DocumentResponse is returned) or "raised";
\*   backend = the store the document was written to.
AddDocumentResult(r, e) ==
    LET id     == r.seq + 1
        tried  == TryChroma(r)
        r1     == IF tried /\ ~e.vs_ok
                    THEN [r EXCEPT !.use_chromadb = AddFailureFlag(@)]
                    ELSE r
    IN  IF ~e.embed_ok
          THEN [repo |-> r, ret |-> "raised", id |-> 0, backend |-> None,
                vs_called |-> FALSE, db_called |-> FALSE, fell_back |-> FALSE]
        ELSE IF tried /\ e.vs_ok
          THEN [repo |-> [r EXCEPT !.chroma = @ \cup {id}, !.seq = id],
                ret |-> "created", id |-> id, backend |-> "chroma",
                vs_called |-> TRUE, db_called |-> FALSE, fell_back |-> FALSE]
        ELSE IF e.db_ok
          THEN [repo |-> [r1 EXCEPT !.mysql = @ \cup {id}, !.seq = id],
                ret |-> "created", id |-> id, backend |-> "mysql",
                vs_called |-> tried, db_called |-> TRUE, fell_back |-> tried]
          ELSE [repo |-> r1, ret |-> "raised", id |-> 0, backend |-> None,
                vs_called |-> tried, db_called |-> TRUE, fell_back |-> tried]

\* get_document as a function of the stores: where the document is found.
GetDocumentSource(r, id, vs_ok, db_ok) ==
    IF TryChroma(r) /\ vs_ok /\ id \in r.chroma THEN "chroma"
    ELSE IF db_ok /\ id \in r.mysql THEN "mysql"
    ELSE None

\* Observation of one repository call.
\*   status           what the call returned ("raised" when it raised)
\*   vs_called        the call invoked the vector store collection
\*   db_called        the call queried or wrote the Embedding table
\*   results, used_fallback   search/list results
\*   pre_chroma, pre_mysql    where the document was before the call
\*   vs_ok, db_ok     whether the stores worked during the call
\*   created, failed, total_requested   the BulkDocumentResponse
Obs(op, id, status, vs_called, db_called) ==
    [op |-> op, id |-> id, status |-> status, vs_called |-> vs_called,
     db_called |-> db_called, results |-> {}, used_fallback |-> FALSE,
     pre_chroma |-> FALSE, pre_mysql |-> FALSE, vs_ok |-> FALSE, db_ok |-> FALSE,
     created |-> <<>>, failed |-> <<>>, total_requested |-> 0,
     total_created |-> 0, total_failed |-> 0, callback |-> None]

\* The repositories construction can produce, and the repository of a
\* deployment configured without the vector store.
InitialRepos ==
    {VectorRepositoryInit(config_use, healthy) : config_use, healthy \in BOOLEAN}
IdleRepo == VectorRepositoryInit(FALSE, FALSE)
NoCall == Obs("init", 0, None, FALSE, FALSE)

add_document ==
    /\ repo.seq < MaxDocs
    /\ \E e \in AddEnv :
          LET res == AddDocumentResult(repo, e)
          IN  /\ repo' = res.repo
              /\ vlast' = [Obs("add", res.id, res.ret, res.vs_called, res.db_called)
                             EXCEPT !.vs_ok = e.vs_ok, !.db_ok = e.db_ok]
              /\ fb_ops' = IF res.fell_back THEN fb_ops \cup {"add"} ELSE fb_ops
    /\ UNCHANGED othersVR

\* add_documents_bulk: the loop over bulk_request.documents, item i (1-based
\* here, index i-1 in the response) calling add_document and then the
\* progress callback inside the same try block.
RECURSIVE BulkLoop(_, _, _, _)
BulkLoop(acc, envs, callback, i) ==
    IF i > Len(envs) THEN acc
    ELSE LET res == AddDocumentResult(acc.repo, envs[i])
             created1 == IF res.ret = "created"
                           THEN Append(acc.created, res.id) ELSE acc.created
             failed1  == IF res.ret = "raised" \/ callback = "raises"
                           THEN Append(acc.failed, [index |-> i - 1, error |-> TRUE])
                           ELSE acc.failed
         IN  BulkLoop([repo |-> res.repo, created |-> created1, failed |-> failed1,
                       vs_called |-> acc.vs_called \/ res.vs_called,
                       db_called |-> acc.db_called \/ res.db_called,
                       fell_back |-> acc.fell_back \/ res.fell_back],
                      envs, callback, i + 1)

\* progress_callback: none given (or one that returns), or one that raises.
Callbacks == {None, "raises"}

add_documents_bulk ==
    /\ \E n \in 1..MaxBulk :
       /\ repo.seq + n <= MaxDocs
       /\ \E envs \in [1..n -> AddEnv], callback \in Callbacks :
             LET acc == BulkLoop([repo |-> repo, created |-> <<>>, failed |-> <<>>,
                                  vs_called |-> FALSE, db_called |-> FALSE,
                                  fell_back |-> FALSE], envs, callback, 1)
             IN  /\ repo' = acc.repo
                 /\ vlast' = [Obs("bulk", 0, "returned", acc.vs_called, acc.db_called)
                                EXCEPT !.created = acc.created,
                                       !.failed = acc.failed,
                                       !.total_requested = n,
                                       !.total_created = Len(acc.created),
                                       !.total_failed = Len(acc.failed),
                                       !.callback = callback]
                 /\ fb_ops' = IF acc.fell_back THEN fb_ops \cup {"add"} ELSE fb_ops
    /\ UNCHANGED othersVR

\* The results of one search over a store: the stored documents whose
\* similarity score reaches query.similarity_threshold (hits: the documents
\* of it that score that high for this query), the top_k best of them. The scores
\* are the embedding service's, so which top_k of several hits come first is
\* drawn.
MaxTopK == 2

SearchResults(store, hits, top_k) ==
    LET matching == store \cap hits
        n        == IF Cardinality(matching) < top_k THEN Cardinality(matching) ELSE top_k
    IN  {R \in SUBSET matching : Cardinality(R) = n}

search_similar ==
    /\ \E e \in AddEnv :
       LET tried    == TryChroma(repo)
           searched == IF tried /\ e.vs_ok THEN repo.chroma ELSE repo.mysql
       IN  \E hits \in SUBSET searched, top_k \in 1..MaxTopK :
           \E results \in SearchResults(searched, hits, top_k) :
       LET r1    == IF tried /\ ~e.vs_ok
                      THEN [repo EXCEPT !.use_chromadb = SearchFailureFlag(@)]
                      ELSE repo
           used_fallback == (tried /\ ~e.vs_ok) \/ ~repo.config_use_chromadb
       IN  IF ~e.embed_ok
             THEN /\ repo' = repo
                  /\ vlast' = Obs("search", 0, "raised", FALSE, FALSE)
                  /\ fb_ops' = fb_ops
           ELSE IF tried /\ e.vs_ok
             THEN /\ repo' = repo
                  /\ vlast' = [Obs("search", 0, "returned", TRUE, FALSE)
                                 EXCEPT !.results = results, !.vs_ok = TRUE]
                  /\ fb_ops' = fb_ops
             ELSE /\ repo' = r1
                  /\ vlast' = IF e.db_ok
                                THEN [Obs("search", 0, "returned", tried, TRUE)
                                        EXCEPT !.results = results,
                                               !.used_fallback = used_fallback,
                                               !.db_ok = TRUE]
                                ELSE Obs("search", 0, "raised", tried, TRUE)
                  /\ fb_ops' = IF tried THEN fb_ops \cup {"search"} ELSE fb_ops
    /\ UNCHANGED othersVR

get_document ==
    /\ \E id \in DocIds, vs_ok \in BOOLEAN, db_ok \in BOOLEAN :
       LET tried == TryChroma(repo)
           src   == GetDocumentSource(repo, id, vs_ok, db_ok)
       IN  /\ repo' = repo
           /\ vlast' = [Obs("get", id, src, tried, src # "chroma")
                          EXCEPT !.vs_ok = vs_ok, !.db_ok = db_ok,
                                 !.pre_chroma = id \in repo.chroma,
                                 !.pre_mysql = id \in repo.mysql]
           /\ fb_ops' = IF tried /\ ~vs_ok THEN fb_ops \cup {"get"} ELSE fb_ops
    /\ UNCHANGED othersVR

\* What the external calls of one update_document do. A call that is not
\* reached has no outcome to draw: nothing after a failed embedding, no
\* collection.add after a failed collection.delete.
UpdateEnv == {e \in [get_vs_ok : BOOLEAN, get_db_ok : BOOLEAN, embed_ok : BOOLEAN,
                     del_ok : BOOLEAN, add_ok : BOOLEAN, db_ok : BOOLEAN] :
                 /\ ~e.embed_ok => (e.del_ok /\ e.add_ok /\ e.db_ok)
                 /\ ~e.del_ok => e.add_ok}

\* update_document: get_document first; a content update re-embeds and, in
\* the vector store, deletes and re-adds; a metadata-only update stores nothing.
update_document ==
    /\ \E id \in DocIds, content_given \in BOOLEAN, e \in UpdateEnv :
       /\ ~content_given => (e.embed_ok /\ e.del_ok /\ e.add_ok /\ e.db_ok)
       /\ LET tried      == TryChroma(repo)
              src        == GetDocumentSource(repo, id, e.get_vs_ok, e.get_db_ok)
              rewrite    == src # None /\ content_given /\ e.embed_ok
              vs_deleted == rewrite /\ tried /\ e.del_ok
              vs_added   == vs_deleted /\ e.add_ok
              chroma1    == IF vs_added THEN repo.chroma \cup {id}
                            ELSE IF vs_deleted THEN repo.chroma \ {id}
                            ELSE repo.chroma
              status     == IF src = None THEN None
                            ELSE IF ~content_given THEN "updated"
                            ELSE IF ~e.embed_ok THEN None
                            ELSE IF vs_added THEN "updated"
                            ELSE IF e.db_ok /\ id \in repo.mysql THEN "updated"
                            ELSE None
              fell       == tried /\ (~e.get_vs_ok \/ (rewrite /\ ~vs_added))
          IN  /\ repo' = [repo EXCEPT !.chroma = chroma1]
              /\ vlast' = [Obs("update", id, status, tried,
                               src # "chroma" \/ (rewrite /\ ~vs_added))
                             EXCEPT !.pre_chroma = id \in repo.chroma,
                                    !.pre_mysql = id \in repo.mysql]
              /\ fb_ops' = IF fell THEN fb_ops \cup {"update"} ELSE fb_ops
    /\ UNCHANGED othersVR

delete_document ==
    /\ \E id \in DocIds, vs_ok \in BOOLEAN, db_ok \in BOOLEAN :
       LET tried   == DeleteTriesChroma(repo)
           vs_done == tried /\ vs_ok
           db_done == db_ok /\ id \in repo.mysql
       IN  /\ repo' = [repo EXCEPT
                         !.chroma = IF vs_done THEN @ \ {id} ELSE @,
                         !.mysql  = IF db_done THEN @ \ {id} ELSE @]
           /\ vlast' = [Obs("delete", id, IF vs_done \/ db_done THEN "true" ELSE "false",
                            tried, TRUE)
                          EXCEPT !.pre_chroma = id \in repo.chroma,
                                 !.pre_mysql  = id \in repo.mysql,
                                 !.vs_ok = vs_ok, !.db_ok = db_ok]
           /\ fb_ops' = IF tried /\ ~vs_ok THEN fb_ops \cup {"delete"} ELSE fb_ops
    /\ UNCHANGED othersVR

list_documents ==
    /\ \E vs_ok \in BOOLEAN, db_ok \in BOOLEAN :
       LET tried == TryChroma(repo)
       IN  /\ repo' = repo
           /\ vlast' = [Obs("list", 0, "returned", tried, ~(tried /\ vs_ok))
                          EXCEPT !.results = IF tried /\ vs_ok THEN repo.chroma
                                             ELSE IF db_ok THEN repo.mysql ELSE {},
                                 !.vs_ok = vs_ok, !.db_ok = db_ok]
           /\ fb_ops' = IF tried /\ ~vs_ok THEN fb_ops \cup {"list"} ELSE fb_ops
    /\ UNCHANGED othersVR

(***************************************************************************)
(* Chat-completion retry loop: ChatService._call_openai_api_with_retry.    *)
(*   rt.pc             "loop" inside the for loop, "after_loop" past it,   *)
(*                     "returned" / "raised" when the call has ended       *)
(*   rt.max_retries    self.max_retries                                    *)
(*   rt.attempt        the loop variable of the next iteration             *)
(*   rt.outcomes       what each _call_openai_api call did, in order       *)
(*   rt.waits          the asyncio.sleep arguments, in units of retry_delay*)
(*   rt.last_exception last_exception                                      *)
(*   rt.error          the exception the call raised                       *)
(***************************************************************************)
max_retries_default == 3
MaxRetriesSetting == 3

\* What one _call_openai_api call can do: return a completion or raise.
\* "APIError" is a provider APIError that is none of the three subclasses
\* named here; "Exception" is any other exception.
ApiOutcomes == {"ok", "RateLimitError", "APIConnectionError",
                "AuthenticationError", "APIError", "Exception"}

RECURSIVE Pow2(_)
Pow2(n) == IF n = 0 THEN 1 ELSE 2 * Pow2(n - 1)

\* for attempt in range(self.max_retries)
LoopContinuesOneMore(attempt, max_retries) == attempt <= max_retries
LoopContinues(attempt, max_retries) == attempt < max_retries

\* except RateLimitError / except APIConnectionError: retried with backoff
IsRetryable(o) == o \in {"RateLimitError", "APIConnectionError"}

\* except (AuthenticationError, APIError): raised at once
IsNonRetryableApiOnly(o) == o = "APIError"
IsNonRetryable(o) == o \in {"AuthenticationError", "APIError"}

NoError == [type |-> None, text |-> None, attempts_named |-> 0, cause |-> None]

\* A call that is about to enter the loop, for each max_retries setting, and
\* the service while no call is running.
InitialRetries ==
    {[pc |-> "loop", max_retries |-> m, attempt |-> 0, outcomes |-> <<>>,
      waits |-> <<>>, last_exception |-> None, error |-> NoError] :
        m \in 0..MaxRetriesSetting}
IdleRetry ==
    [pc |-> "idle", max_retries |-> max_retries_default, attempt |-> 0,
     outcomes |-> <<>>, waits |-> <<>>, last_exception |-> None, error |-> NoError]

\* One iteration of the for loop: one provider call and its except clause.
api_attempt ==
    /\ rt.pc = "loop"
    /\ LoopContinues(rt.attempt, rt.max_retries)
    /\ \E o \in ApiOutcomes :
          LET called == [rt EXCEPT !.outcomes = Append(@, o)]
          IN  rt' = IF o = "ok"
                      THEN [called EXCEPT !.pc = "returned"]
                    ELSE IF IsRetryable(o)
                      THEN [called EXCEPT !.last_exception = o,
                                          !.waits = Append(@, Pow2(rt.attempt)),
                                          !.attempt = @ + 1]
                    ELSE IF IsNonRetryable(o)
                      THEN [called EXCEPT !.pc = "raised",
                                          !.error = [type |-> "OpenAIAPIError",
                                                     text |-> "OpenAI API error",
                                                     attempts_named |-> 0,
                                                     cause |-> o]]
                    ELSE IF rt.attempt = rt.max_retries - 1
                      THEN [called EXCEPT !.last_exception = o, !.pc = "after_loop"]
                      ELSE [called EXCEPT !.last_exception = o,
                                          !.waits = Append(@, 1),
                                          !.attempt = @ + 1]
    /\ UNCHANGED othersRetry

\* The loop ran out (or broke): "Failed to get response from OpenAI after
\* {self.max_retries} attempts", with the last exception appended.
raise_after_retries ==
    /\ \/ rt.pc = "after_loop"
       \/ rt.pc = "loop" /\ ~LoopContinues(rt.attempt, rt.max_retries)
    /\ rt' = [rt EXCEPT !.pc = "raised",
                        !.error = [type |-> "OpenAIAPIError",
                                   text |-> "Failed to get response from OpenAI after attempts",
                                   attempts_named |-> rt.max_retries,
                                   cause |-> rt.last_exception]]
    /\ UNCHANGED othersRetry

(***************************************************************************)
(* Legacy chat: ChatService._legacy_send_message over                      *)
(* ChatService.conversations (ConversationHistory.messages, by role).      *)
(***************************************************************************)
MaxConvs == 2
MaxSends == 4

ConversationLimit == 100
ConversationKeep == 50

ConvIds == 1..MaxConvs
NoConv == 0        \* request.conversation_id is None
UnknownConv == 0 - 1   \* an id that names no stored conversation

\* request.message: empty or blank, longer than 4000 characters, or valid
MessageKinds == {"blank", "too_long", "valid"}

\* What _call_openai_api_with_retry hands back to _legacy_send_message:
\*   "reply"          a completion with non-blank content
\*   "blank_reply"    a completion whose content is only whitespace
\*   "empty_reply"    a completion whose content is empty or None
\*   "no_choices"     None or a completion without choices
\*   "malformed"      a completion whose first choice has no message
\*   "OpenAIAPIError" the retry loop raised
LegacyApiOutcomes == {"reply", "blank_reply", "empty_reply", "no_choices",
                      "malformed", "OpenAIAPIError"}

\* s[-n:]
LastN(s, n) == IF Len(s) <= n THEN s ELSE SubSeq(s, Len(s) - n + 1, Len(s))

\* The history n answered sends leave behind: user, assistant, user, ...
Exchanges(n) == [i \in 1..(2 * n) |-> IF i % 2 = 1 THEN "user" ELSE "assistant"]

\* Histories a conversation can have when the model starts: one that is at
\* the message limit and one that is one message past it.
PriorHistories == {Exchanges(ConversationKeep),
                   Append(Exchanges(ConversationKeep), "user")}

\* ChatResponse(...): the model's validate_message rejects a message that is
\* empty or blank, so the constructor raises instead of returning a response.
ChatResponseAccepts(message_blank) == ~message_blank

\* A conversation removed by delete_conversation: its id is never issued
\* again (ids are uuid4 values), so its place in the sequence stays taken.
Deleted == <<"deleted">>

\* conversation_id in self.conversations
ConversationExists(convs, cid) == cid \in DOMAIN convs /\ convs[cid] # Deleted

\* The calls that can be waiting for the provider at one time.
MaxConcurrentSends == 2
SendSlots == 1..MaxConcurrentSends

\* A call between its two halves: the conversation object it holds, that
\* conversation's history when the call started, and whether nothing else
\* has touched the conversation since.
IdleSend == [pc |-> "idle", conv |-> NoConv, pre |-> <<>>, alone |-> TRUE]
NoPendingSends == [s \in SendSlots |-> IdleSend]

\* Observation of the call that returned last.
\*   outcome          "returned" or "raised"
\*   success, conversation_id, error   fields of the response returned, or
\*                    error = the exception that left the call
\*   conv             the conversation created or reused by the call
\*   failed           the call went through one of the except clauses
\*   calls            number of calls started so far
\*   pending          the calls waiting for the provider
LgObs(op, outcome, success, conversation_id, error, conv, failed) ==
    [op |-> op, outcome |-> outcome, success |-> success,
     conversation_id |-> conversation_id, error |-> error,
     conv |-> conv, failed |-> failed, calls |-> 0, pending |-> NoPendingSends]

\* The three except clauses build ChatResponse(message="", ...,
\* conversation_id=conversation_id or "", success=False, error=...). The
\* exception the constructor raises leaves _legacy_send_message; the except
\* clause of send_message builds ChatResponse(message="", ...) again, so it
\* leaves send_message too.
FailureResponse(error, conv) ==
    IF ChatResponseAccepts(TRUE)
      THEN LgObs("send", "returned", FALSE, conv, error, conv, TRUE)
      ELSE LgObs("send", "raised", FALSE, NoConv, "ValidationError", conv, TRUE)

InitialConversations == {<<>>} \cup {<<h>> : h \in PriorHistories}
NoSend == LgObs("init", None, FALSE, NoConv, None, NoConv, FALSE)

\* The waiting calls after something other than call s touched conversation
\* conv.
Disturbed(pending, conv, s) ==
    [t \in SendSlots |->
        IF t # s /\ pending[t].pc = "awaiting" /\ pending[t].conv = conv
          THEN [pending[t] EXCEPT !.alone = FALSE]
          ELSE pending[t]]

\* _legacy_send_message up to its await: validation, the conversation looked
\* up or created, the cut to the last 50 messages, the user turn appended. A
\* message that fails validation ends the call here.
_legacy_send_message ==
    /\ lg.calls < MaxSends
    /\ \E s \in SendSlots, msg \in MessageKinds,
          cid \in {NoConv, UnknownConv} \cup ConvIds :
       LET known  == ConversationExists(conversations, cid)
           conv   == IF known THEN cid ELSE Len(conversations) + 1
           convs1 == IF known THEN conversations ELSE Append(conversations, <<>>)
           kept   == IF Len(convs1[conv]) > ConversationLimit
                       THEN LastN(convs1[conv], ConversationKeep)
                       ELSE convs1[conv]
           asked  == [convs1 EXCEPT ![conv] = Append(kept, "user")]
       IN  /\ lg.pending[s].pc = "idle"
           /\ \A t \in SendSlots : t < s => lg.pending[t].pc # "idle"
           /\ IF msg # "valid"
                THEN /\ conversations' = conversations
                     /\ lg' = [FailureResponse("Invalid input", NoConv)
                                 EXCEPT !.calls = lg.calls + 1, !.pending = lg.pending]
                ELSE /\ known \/ Len(conversations) < MaxConvs
                     /\ conversations' = asked
                     /\ lg' = [lg EXCEPT
                                 !.calls = @ + 1,
                                 !.pending = [Disturbed(@, conv, s) EXCEPT
                                     ![s] = [pc |-> "awaiting", conv |-> conv,
                                             pre |-> convs1[conv], alone |-> TRUE]]]
    /\ UNCHANGED othersLegacy

\* The rest of _legacy_send_message, once _call_openai_api_with_retry has
\* handed back its result: the reply is appended to the conversation object
\* the call holds, which delete_conversation may have taken out of
\* self.conversations meanwhile.
legacy_send_message_reply ==
    /\ \E s \in SendSlots, api \in LegacyApiOutcomes :
       LET conv == lg.pending[s].conv
           rest == [lg.pending EXCEPT ![s] = IdleSend]
       IN  /\ lg.pending[s].pc = "awaiting"
           /\ IF api = "reply"
                THEN /\ conversations' =
                           IF ConversationExists(conversations, conv)
                             THEN [conversations EXCEPT ![conv] = Append(@, "assistant")]
                             ELSE conversations
                     /\ lg' = [LgObs("send", "returned", TRUE, conv, None, conv, FALSE)
                                 EXCEPT !.calls = lg.calls,
                                        !.pending = Disturbed(rest, conv, s)]
                ELSE /\ conversations' = conversations
                     /\ lg' = [FailureResponse(
                                  CASE api = "blank_reply" -> "Invalid input"
                                    [] api = "malformed"   -> "An unexpected error occurred"
                                    [] OTHER               -> "OpenAIAPIError",
                                  conv)
                                 EXCEPT !.calls = lg.calls, !.pending = rest]
    /\ UNCHANGED othersLegacy

\* ChatService.create_conversation called on its own.
create_conversation ==
    /\ Len(conversations) < MaxConvs
    /\ conversations' = Append(conversations, <<>>)
    /\ lg' = lg
    /\ UNCHANGED othersLegacy

\* ChatService.clear_conversation: messages.clear() when the id is known.
clear_conversation ==
    /\ \E cid \in ConvIds :
          /\ ConversationExists(conversations, cid)
          /\ conversations' = [conversations EXCEPT ![cid] = <<>>]
          /\ lg' = [lg EXCEPT !.pending = Disturbed(@, cid, 0)]
    /\ UNCHANGED othersLegacy

\* ChatService.delete_conversation: del self.conversations[id] when the id
\* is known.
delete_conversation ==
    /\ \E cid \in ConvIds :
          /\ ConversationExists(conversations, cid)
          /\ conversations' = [conversations EXCEPT ![cid] = Deleted]
          /\ lg' = [lg EXCEPT !.pending = Disturbed(@, cid, 0)]
    /\ UNCHANGED othersLegacy

(***************************************************************************)
(* Context assembly: ConversationContextService.combine_context.           *)
(* A message is [id, words, token_count] (token_count 0: none stored), a   *)
(* retrieved document is [id, words, score, truncated]; words is the       *)
(* number of whitespace-separated words of the content.                    *)
(*   cx.history, cx.docs, cx.max_tokens   the arguments                    *)
(*   cx.result                            the ConversationContext returned *)
(***************************************************************************)
MaxHistory == 4
MaxRetrieved == 3

preserve_last_n_messages == 2
MinTruncationBudget == 50

\* Targets (max_tokens) and contents the model draws its inputs from.
Targets == {200, 340}
MessageChoices == {[words |-> 10, token_count |-> 0],
                   [words |-> 30, token_count |-> 0],
                   [words |-> 100, token_count |-> 0],
                   [words |-> 30, token_count |-> 90]}
DocumentChoices == {[words |-> 10, score |-> 1],
                    [words |-> 30, score |-> 3],
                    [words |-> 30, score |-> 2],
                    [words |-> 100, score |-> 2]}

\* int(word_count * self.tokens_per_word), tokens_per_word = 1.3
WordTokens(words) == (words * 13) \div 10

\* message.token_count or int(len(message.content.split()) * tokens_per_word)
MessageTokens(m) == IF m.token_count # 0 THEN m.token_count ELSE WordTokens(m.words)

DocumentTokens(d) == WordTokens(d.words)

\* _calculate_message_tokens
RECURSIVE CalculateMessageTokens(_)
CalculateMessageTokens(ms) ==
    IF ms = <<>> THEN 0
    ELSE MessageTokens(Head(ms)) + CalculateMessageTokens(Tail(ms))

\* _calculate_document_tokens
RECURSIVE CalculateDocumentTokens(_)
CalculateDocumentTokens(ds) ==
    IF ds = <<>> THEN 0
    ELSE DocumentTokens(Head(ds)) + CalculateDocumentTokens(Tail(ds))

\* int(max_tokens * 0.7) in IEEE double arithmetic: for these targets the
\* product falls just below the integer and truncates to one less.
DoubleShortOfSevenTenths == {90, 170, 180, 330, 340, 350, 360}
MessageTokenBudget(max_tokens) ==
    IF max_tokens \in DoubleShortOfSevenTenths
      THEN (max_tokens * 7) \div 10 - 1
      ELSE (max_tokens * 7) \div 10

\* int(max_tokens * 0.3)
DocTokenBudget(max_tokens) == (max_tokens * 3) \div 10

\* "if message_tokens <= remaining_budget" of the walk back through history
FitsFlipped(tokens, remaining) == tokens >= remaining
Fits(tokens, remaining) == tokens <= remaining

\* _truncate_messages_to_budget: from the most recent message backwards,
\* keep while the running total stays within the budget.
RECURSIVE TruncateLoop(_, _, _, _, _)
TruncateLoop(ms, i, used, budget, acc) ==
    IF i = 0 THEN acc
    ELSE IF used + MessageTokens(ms[i]) <= budget
      THEN TruncateLoop(ms, i - 1, used + MessageTokens(ms[i]), budget, <<ms[i]>> \o acc)
      ELSE acc

TruncateMessagesToBudget(ms, budget) == TruncateLoop(ms, Len(ms), 0, budget, <<>>)

\* The backwards loop of _prioritize_messages over the messages before the
\* preserved ones.
RECURSIVE WalkBack(_, _, _, _)
WalkBack(ms, i, remaining, acc) ==
    IF i = 0 THEN acc
    ELSE IF Fits(MessageTokens(ms[i]), remaining)
      THEN WalkBack(ms, i - 1, remaining - MessageTokens(ms[i]), <<ms[i]>> \o acc)
      ELSE acc

\* _prioritize_messages
PrioritizeMessages(ms, budget) ==
    IF ms = <<>> THEN <<>>
    ELSE LET preserve_count == IF preserve_last_n_messages <= Len(ms)
                                 THEN preserve_last_n_messages ELSE Len(ms)
             preserved == SubSeq(ms, Len(ms) - preserve_count + 1, Len(ms))
             preserved_tokens == CalculateMessageTokens(preserved)
         IN  IF preserved_tokens > budget
               THEN TruncateMessagesToBudget(preserved, budget)
               ELSE WalkBack(ms, Len(ms) - preserve_count,
                             budget - preserved_tokens, <<>>) \o preserved

\* sorted(documents, key=similarity_score, reverse=True): stable.
RECURSIVE InsertByScore(_, _)
InsertByScore(d, sorted) ==
    IF sorted = <<>> THEN <<d>>
    ELSE IF Head(sorted).score >= d.score
      THEN <<Head(sorted)>> \o InsertByScore(d, Tail(sorted))
      ELSE <<d>> \o sorted

RECURSIVE SortLoop(_, _)
SortLoop(ds, sorted) ==
    IF ds = <<>> THEN sorted ELSE SortLoop(Tail(ds), InsertByScore(Head(ds), sorted))

SortByScoreUnsorted(ds) == ds
SortByScore(ds) == SortLoop(ds, <<>>)

\* _truncate_document: the first int(token_budget / 1.3) words plus "...".
TruncateDocument(d, token_budget) ==
    LET max_words == (token_budget * 10) \div 13
    IN  IF d.words <= max_words THEN d
        ELSE [d EXCEPT !.words = IF max_words = 0 THEN 1 ELSE max_words,
                       !.truncated = TRUE]

\* The loop of _prioritize_documents over the sorted documents.
RECURSIVE SelectDocuments(_, _, _, _)
SelectDocuments(ds, used, budget, selected) ==
    IF ds = <<>> THEN selected
    ELSE LET d == Head(ds)
             doc_tokens == DocumentTokens(d)
         IN  IF used + doc_tokens <= budget
               THEN SelectDocuments(Tail(ds), used + doc_tokens, budget, Append(selected, d))
             ELSE IF budget - used > MinTruncationBudget
               THEN Append(selected, TruncateDocument(d, budget - used))
               ELSE selected

\* _prioritize_documents
PrioritizeDocuments(ds, budget) ==
    IF ds = <<>> THEN <<>> ELSE SelectDocuments(SortByScore(ds), 0, budget, <<>>)

\* combine_context with _apply_token_management
CombineContext(history, docs, max_tokens) ==
    LET total == CalculateMessageTokens(history) + CalculateDocumentTokens(docs)
        pm    == PrioritizeMessages(history, MessageTokenBudget(max_tokens))
        pd    == PrioritizeDocuments(docs, DocTokenBudget(max_tokens))
    IN  IF total > max_tokens
          THEN [messages |-> pm, docs |-> pd,
                total_tokens |-> CalculateMessageTokens(pm) + CalculateDocumentTokens(pd),
                managed |-> TRUE]
          ELSE [messages |-> history, docs |-> docs, total_tokens |-> total,
                managed |-> FALSE]

NoContext == [messages |-> <<>>, docs |-> <<>>, total_tokens |-> 0, managed |-> FALSE]

\* A chat history and a retrieved-document list made of the given contents,
\* numbered in order.
History(hm) ==
    [i \in DOMAIN hm |-> [id |-> i, words |-> hm[i].words,
                          token_count |-> hm[i].token_count]]
RetrievedList(dm) ==
    [i \in DOMAIN dm |-> [id |-> i, words |-> dm[i].words, score |-> dm[i].score,
                          truncated |-> FALSE]]

IdleCtx == [pc |-> "idle", history |-> <<>>, docs |-> <<>>, max_tokens |-> 0,
            result |-> NoContext]

combine_context ==
    /\ cx.pc = "input"
    /\ cx' = [cx EXCEPT !.pc = "done",
                        !.result = CombineContext(cx.history, cx.docs, cx.max_tokens)]
    /\ UNCHANGED othersCtx

(***************************************************************************)
(* Sessions and messages: the two tables, SessionService, MessageService,  *)
(* the delete and update methods of the two repositories, and              *)
(* RAGChatService.process_chat_message.                                    *)
(*   sessions   id -> name ("given" by the creator, "generated" by the     *)
(*              RAG chat auto-naming)                                      *)
(*   messages   rows [id, session_id, role, content], oldest first         *)
(*   db_seq     number of session ids and of message ids generated         *)
(*   rc         observation of the last call                               *)
(***************************************************************************)
MaxSessions == 2
MaxMessages == 3
MaxFailedSteps == 2

SessionIds == 1..MaxSessions
MessageIds == 1..MaxMessages
Roles == {"user", "assistant"}

\* The replies RAG chat stores: the model's answer, the text _generate_response
\* returns when generation fails, and the text of the except clause of
\* process_chat_message.
Reply == "reply"
GenerationApology ==
    "I apologize, but I'm having trouble generating a response right now. Please try again."
Apology ==
    "I apologize, but I encountered an error processing your message. Please try again."

\* Observation of one call: the session it was about (0 when the call raised
\* on a database error), how it ended, and what it stored or removed.
RcObs(op, sid, outcome) ==
    [op |-> op, sid |-> sid, outcome |-> outcome, pre_exists |-> FALSE,
     cascaded |-> 0, content |-> None, msg_id |-> 0, failed |-> {},
     renamed |-> FALSE]

SessionExists(sid) == sid \in DOMAIN sessions

\* A new row of the messages table (uuid4 id, timestamp = now).
NewMessage(sid, role, content) ==
    [id |-> db_seq.messages + 1, session_id |-> sid, role |-> role, content |-> content]

\* relationship(..., cascade="all, delete-orphan") and ondelete="CASCADE":
\* the rows of the deleted session go with it.
CascadeNothing(msgs, sid) == msgs
CascadeDelete(msgs, sid) == SelectSeq(msgs, LAMBDA m : m.session_id # sid)

\* "Verify session exists" of create_message.
SessionCheck(sid) == SessionExists(sid)

NoIds == [sessions |-> 0, messages |-> 0]
NoRequest == RcObs("init", 0, None)

\* SessionService.create_session. (SessionRepository.create_session reads
\* session_create.session_metadata, which SessionCreate does not have, and
\* stores nothing.)
create_session ==
    /\ db_seq.sessions < MaxSessions
    /\ \E db_ok \in BOOLEAN :
          LET sid == db_seq.sessions + 1
          IN  IF db_ok
                THEN /\ sessions' = [s \in DOMAIN sessions \cup {sid} |->
                                        IF s = sid THEN "given" ELSE sessions[s]]
                     /\ db_seq' = [db_seq EXCEPT !.sessions = sid]
                     /\ rc' = RcObs("create_session", sid, "created")
                ELSE /\ UNCHANGED <<sessions, db_seq>>
                     /\ rc' = RcObs("create_session", 0, "raised")
    /\ UNCHANGED messages
    /\ UNCHANGED othersDB

\* SessionRepository.delete_session (SessionService.delete_session differs
\* only in returning False where this raises).
delete_session ==
    /\ \E sid \in SessionIds, db_ok \in BOOLEAN :
          IF ~SessionExists(sid)
            THEN /\ UNCHANGED <<sessions, messages>>
                 /\ rc' = RcObs("delete_session", sid, "SessionNotFoundError")
          ELSE IF ~db_ok
            THEN /\ UNCHANGED <<sessions, messages>>
                 /\ rc' = RcObs("delete_session", 0, "raised")
            ELSE /\ sessions' = [s \in DOMAIN sessions \ {sid} |-> sessions[s]]
                 /\ messages' = CascadeDelete(messages, sid)
                 /\ rc' = [RcObs("delete_session", sid, "deleted")
                             EXCEPT !.pre_exists = TRUE,
                                    !.cascaded = Len(messages) - Len(CascadeDelete(messages, sid))]
    /\ UNCHANGED db_seq
    /\ UNCHANGED othersDB

\* MessageService.create_message; "SessionNotFoundError" stands for its
\* Exception("Session not found"). (MessageRepository.create_message reads
\* message_create.message_metadata, which MessageCreate does not have, and
\* stores nothing.)
create_message ==
    /\ db_seq.messages < MaxMessages
    /\ \E sid \in SessionIds, role \in Roles, db_ok \in BOOLEAN :
          IF ~SessionCheck(sid)
            THEN /\ UNCHANGED <<messages, db_seq>>
                 /\ rc' = RcObs("create_message", sid, "SessionNotFoundError")
          ELSE IF ~db_ok
            THEN /\ UNCHANGED <<messages, db_seq>>
                 /\ rc' = RcObs("create_message", 0, "raised")
            ELSE /\ messages' = Append(messages, NewMessage(sid, role, "text"))
                 /\ db_seq' = [db_seq EXCEPT !.messages = @ + 1]
                 /\ rc' = [RcObs("create_message", sid, "created")
                             EXCEPT !.pre_exists = SessionExists(sid),
                                    !.msg_id = db_seq.messages + 1]
    /\ UNCHANGED sessions
    /\ UNCHANGED othersDB

\* SessionService.update_session: the name is replaced when one is given;
\* None is returned for an unknown session and after a database error.
update_session ==
    /\ \E sid \in SessionIds, name_given \in BOOLEAN, db_ok \in BOOLEAN :
          IF ~SessionExists(sid)
            THEN /\ UNCHANGED sessions
                 /\ rc' = RcObs("update_session", sid, "not_found")
          ELSE IF ~db_ok
            THEN /\ UNCHANGED sessions
                 /\ rc' = [RcObs("update_session", sid, "failed") EXCEPT !.pre_exists = TRUE]
            ELSE /\ sessions' = [sessions EXCEPT ![sid] = IF name_given THEN "given" ELSE @]
                 /\ rc' = [RcObs("update_session", sid, "updated") EXCEPT !.pre_exists = TRUE]
    /\ UNCHANGED <<messages, db_seq>>
    /\ UNCHANGED othersDB

\* MessageRepository.update_message: the new content is committed, then the
\* conversion of the row for the return value reads token_count, which the
\* messages table does not have, so the call raises MessageRepositoryError
\* with the row already changed.
update_message ==
    /\ \E mid \in MessageIds, content_given \in BOOLEAN, db_ok \in BOOLEAN :
          IF ~(\E i \in DOMAIN messages : messages[i].id = mid)
            THEN /\ UNCHANGED messages
                 /\ rc' = RcObs("update_message", 0, "MessageNotFoundError")
          ELSE IF ~db_ok
            THEN /\ UNCHANGED messages
                 /\ rc' = RcObs("update_message", 0, "raised")
            ELSE /\ messages' = [i \in DOMAIN messages |->
                                    IF messages[i].id = mid /\ content_given
                                      THEN [messages[i] EXCEPT !.content = "edited"]
                                      ELSE messages[i]]
                 /\ rc' = [RcObs("update_message", 0, "MessageRepositoryError")
                             EXCEPT !.msg_id = mid]
    /\ UNCHANGED <<sessions, db_seq>>
    /\ UNCHANGED othersDB

\* MessageRepository.delete_message
delete_message ==
    /\ \E mid \in MessageIds, db_ok \in BOOLEAN :
          IF ~(\E i \in DOMAIN messages : messages[i].id = mid)
            THEN /\ UNCHANGED messages
                 /\ rc' = RcObs("delete_message", 0, "MessageNotFoundError")
          ELSE IF ~db_ok
            THEN /\ UNCHANGED messages
                 /\ rc' = RcObs("delete_message", 0, "raised")
            ELSE /\ messages' = SelectSeq(messages, LAMBDA m : m.id # mid)
                 /\ rc' = [RcObs("delete_message", 0, "deleted") EXCEPT !.msg_id = mid]
    /\ UNCHANGED <<sessions, db_seq>>
    /\ UNCHANGED othersDB

\* MessageRepository.delete_session_messages
delete_session_messages ==
    /\ \E sid \in SessionIds, db_ok \in BOOLEAN :
          IF ~db_ok
            THEN /\ UNCHANGED messages
                 /\ rc' = RcObs("delete_session_messages", 0, "raised")
            ELSE /\ messages' = SelectSeq(messages, LAMBDA m : m.session_id # sid)
                 /\ rc' = [RcObs("delete_session_messages", sid, "deleted")
                             EXCEPT !.cascaded = Len(messages)
                                       - Len(SelectSeq(messages, LAMBDA m : m.session_id # sid))]
    /\ UNCHANGED <<sessions, db_seq>>
    /\ UNCHANGED othersDB

\* The steps of process_chat_message that can fail.
ChatSteps == {"store_user", "rename", "embed_user", "history", "retrieve",
              "generate", "store_reply", "embed_reply"}

\* Number of user messages of a session (the count query of
\* _update_session_name_if_first_message).
UserMessageCount(msgs, sid) ==
    Len(SelectSeq(msgs, LAMBDA m : m.session_id = sid /\ m.role = "user"))

\* "if message_count == 1": the count is taken after the user message was
\* stored.
IsFirstUserMessageBeforeStore(message_count) == message_count = 0
IsFirstUserMessage(message_count) == message_count = 1

\* The sets of steps that fail during one call.
StepFailures == {F \in SUBSET ChatSteps : Cardinality(F) <= MaxFailedSteps}

\* RAGChatService.process_chat_message. F is the set of steps whose external
\* call (database, embedding or completion provider) fails; handler_ok says
\* whether the database write of the except clause works. A step that is not
\* reached has no outcome to draw: nothing after a failed store_user, no
\* embed_reply after a failed store_reply, no except clause when the reply
\* was stored; for a missing session store_user raises by itself.
process_chat_message ==
    /\ db_seq.messages + 2 <= MaxMessages
    /\ \E sid \in SessionIds, F \in StepFailures, handler_ok \in BOOLEAN :
       /\ ~SessionExists(sid) => F = {}
       /\ "store_user" \in F => F = {"store_user"}
       /\ "store_reply" \in F => "embed_reply" \notin F
       /\ (SessionExists(sid) /\ F \cap {"store_user", "store_reply"} = {}) => handler_ok
       /\ LET exists      == SessionExists(sid)
              user_stored == exists /\ "store_user" \notin F
              user_msg    == NewMessage(sid, "user", "text")
              msgs1       == Append(messages, user_msg)
              renamed     == /\ user_stored
                             /\ IsFirstUserMessage(UserMessageCount(msgs1, sid))
                             /\ "rename" \notin F
              content     == IF "generate" \in F THEN GenerationApology ELSE Reply
              reply_stored == user_stored /\ "store_reply" \notin F
              ran_failed  == IF ~user_stored THEN {"store_user"}
                             ELSE IF ~reply_stored THEN F \ {"embed_reply"}
                             ELSE F
              reply_msg   == [id |-> db_seq.messages + 2, session_id |-> sid,
                              role |-> "assistant", content |-> content]
              base        == IF user_stored THEN msgs1 ELSE messages
              next_id     == IF user_stored THEN db_seq.messages + 2
                             ELSE db_seq.messages + 1
              apology_msg == [id |-> next_id, session_id |-> sid,
                              role |-> "assistant", content |-> Apology]
          IN  /\ sessions' = IF renamed
                               THEN [sessions EXCEPT ![sid] = "generated"]
                               ELSE sessions
              /\ IF reply_stored
                   THEN /\ messages' = Append(msgs1, reply_msg)
                        /\ db_seq' = [db_seq EXCEPT !.messages = @ + 2]
                        /\ rc' = [RcObs("chat", sid, "returned")
                                    EXCEPT !.pre_exists = exists, !.content = content,
                                           !.msg_id = reply_msg.id, !.failed = ran_failed,
                                           !.renamed = renamed]
                 ELSE IF exists /\ handler_ok
                   THEN /\ messages' = Append(base, apology_msg)
                        /\ db_seq' = [db_seq EXCEPT !.messages = next_id]
                        /\ rc' = [RcObs("chat", sid, "returned")
                                    EXCEPT !.pre_exists = exists, !.content = Apology,
                                           !.msg_id = next_id, !.failed = ran_failed,
                                           !.renamed = renamed]
                   ELSE /\ messages' = base
                        /\ db_seq' = [db_seq EXCEPT !.messages =
                                         IF user_stored THEN @ + 1 ELSE @]
                        /\ rc' = [RcObs("chat", sid, "raised")
                                    EXCEPT !.pre_exists = exists, !.failed = ran_failed,
                                           !.renamed = renamed]
    /\ UNCHANGED othersDB

(***************************************************************************)
(* Insurance tools: InsuranceMCPClient.call_tool (in-process client) and   *)
(* call_tool of mcp_server/insurance_server.py (standalone server).        *)
(*   tl.tool       the tool name                                           *)
(*   tl.arguments  the arguments dict: key -> "given" (a truthy value) or  *)
(*                 "falsy" (0, "", None); a key missing from the dict is   *)
(*                 missing from the function                               *)
(*   tl.db         what the database does: "ok", "connect_fails" (every    *)
(*                 connection attempt raises), "execute_fails"             *)
(*                 (cursor.execute raises mysql.connector.Error)           *)
(*   tl.client, tl.server   statements issued and JSON text returned       *)
(***************************************************************************)
\* The query tools: table and the filters in the order the code tests them.
QueryTools ==
    [query_agents    |-> [table |-> "Agents",    filters |-> <<"agent_id", "region">>],
     query_customers |-> [table |-> "Customers", filters |-> <<"customer_id", "agent_id", "email">>],
     query_policies  |-> [table |-> "Policies",
                          filters |-> <<"policy_id", "customer_id", "policy_type", "status">>],
     query_claims    |-> [table |-> "Claims",    filters |-> <<"claim_id", "policy_id", "status">>],
     query_payments  |-> [table |-> "Payments",  filters |-> <<"payment_id", "policy_id", "status">>]]

\* The update tools: table, id column and the word that starts the message.
UpdateTools ==
    [update_claim_status  |-> [table |-> "Claims",   key |-> "claim_id",  label |-> "Claim"],
     update_policy_status |-> [table |-> "Policies", key |-> "policy_id", label |-> "Policy"]]

ToolNames == DOMAIN QueryTools \cup DOMAIN UpdateTools \cup {"no_such_tool"}

\* The argument names a tool reads.
ToolArgumentNames(tool) ==
    IF tool \in DOMAIN QueryTools
      THEN {QueryTools[tool].filters[i] : i \in DOMAIN QueryTools[tool].filters}
    ELSE IF tool \in DOMAIN UpdateTools THEN {UpdateTools[tool].key, "status"}
    ELSE {}

ArgumentValues == {"given", "falsy"}

\* arguments.get(k) as a condition.
Truthy(arguments, k) == k \in DOMAIN arguments /\ arguments[k] = "given"

\* What a call did: the statements handed to cursor.execute, whether it
\* committed, and the JSON document it returned.
ToolResult(statements, committed, json) ==
    [statements |-> statements, committed |-> committed, json |-> json]

JsonError(error, has_code) ==
    [shape |-> "error", error |-> error, error_code |-> has_code, body |-> <<>>]
JsonRows(table) ==
    [shape |-> "rows", error |-> <<>>, error_code |-> FALSE, body |-> <<table>>]
JsonSuccess(message) ==
    [shape |-> "success", error |-> <<>>, error_code |-> FALSE, body |-> message]

NoResult == ToolResult(<<>>, FALSE, JsonError(<<"not called">>, FALSE))

\* get_db_connection raised after its three attempts: the generic handler.
ConnectFailure(tool) ==
    ToolResult(<<>>, FALSE,
               JsonError(<<"Error calling tool", tool, "Failed to connect to database">>, FALSE))

\* cursor.execute raised mysql.connector.Error.
ExecuteFailure(tool, statement) ==
    ToolResult(<<statement>>, FALSE, JsonError(<<"MySQL error calling tool", tool>>, TRUE))

\* "SELECT * FROM <table> WHERE 1=1" with one "AND col = %s" and one
\* parameter for each filter that is given, then fetchall.
RunQuery(tool, arguments, db) ==
    LET q         == QueryTools[tool]
        where     == SelectSeq(q.filters, LAMBDA k : Truthy(arguments, k))
        statement == [verb |-> "SELECT", table |-> q.table, columns |-> where,
                      params |-> [i \in DOMAIN where |-> arguments[where[i]]]]
    IN  IF db = "execute_fails" THEN ExecuteFailure(tool, statement)
        ELSE ToolResult(<<statement>>, FALSE, JsonRows(q.table))

\* "UPDATE <table> SET status = %s WHERE <key> = %s" with (status, id), then
\* commit.
RunUpdate(tool, arguments, db) ==
    LET u         == UpdateTools[tool]
        statement == [verb |-> "UPDATE", table |-> u.table, columns |-> <<"status", u.key>>,
                      params |-> <<arguments["status"], arguments[u.key]>>]
    IN  IF db = "execute_fails" THEN ExecuteFailure(tool, statement)
        ELSE ToolResult(<<statement>>, TRUE,
                        JsonSuccess(<<u.label, arguments[u.key], "updated to",
                                      arguments["status"]>>))

UnknownTool(tool) == ToolResult(<<>>, FALSE, JsonError(<<"Unknown tool", tool>>, FALSE))

\* InsuranceMCPClient.call_tool
ClientCallTool(tool, arguments, db) ==
    IF db = "connect_fails" THEN ConnectFailure(tool)
    ELSE IF tool \in DOMAIN QueryTools THEN RunQuery(tool, arguments, db)
    ELSE IF tool \in DOMAIN UpdateTools
      THEN IF ~Truthy(arguments, UpdateTools[tool].key) \/ ~Truthy(arguments, "status")
             THEN ToolResult(<<>>, FALSE,
                             JsonError(<<UpdateTools[tool].key, "and status are required">>, FALSE))
             ELSE RunUpdate(tool, arguments, db)
    ELSE UnknownTool(tool)

\* call_tool of the standalone server. The update branches index the dict
\* without a test: a missing key raises KeyError while the parameter tuple is
\* built (status first), which the generic handler reports.
ServerCallTool(tool, arguments, db) ==
    IF db = "connect_fails" THEN ConnectFailure(tool)
    ELSE IF tool \in DOMAIN QueryTools THEN RunQuery(tool, arguments, db)
    ELSE IF tool \in DOMAIN UpdateTools
      THEN IF "status" \notin DOMAIN arguments
             THEN ToolResult(<<>>, FALSE,
                             JsonError(<<"Error calling tool", tool, "KeyError", "status">>, FALSE))
           ELSE IF UpdateTools[tool].key \notin DOMAIN arguments
             THEN ToolResult(<<>>, FALSE,
                             JsonError(<<"Error calling tool", tool, "KeyError",
                                         UpdateTools[tool].key>>, FALSE))
           ELSE RunUpdate(tool, arguments, db)
    ELSE UnknownTool(tool)

IdleTool ==
    [pc |-> {"idle"}, tool |-> None, arguments |-> <<>>, db |-> "ok",
     client |-> NoResult, server |-> NoResult]

\* The same call is given to the client ...
client_call_tool ==
    /\ "client" \in tl.pc
    /\ tl' = [tl EXCEPT !.pc = @ \ {"client"},
                        !.client = ClientCallTool(tl.tool, tl.arguments, tl.db)]
    /\ UNCHANGED othersTool

\* ... and to the server.
server_call_tool ==
    /\ "server" \in tl.pc
    /\ tl' = [tl EXCEPT !.pc = @ \ {"server"},
                        !.server = ServerCallTool(tl.tool, tl.arguments, tl.db)]
    /\ UNCHANGED othersTool

(***************************************************************************)
(* Orchestrator: OrchestratorService.route_query and the two handlers.     *)
(* Text is a sequence of one-character strings.                            *)
(*   orch.pc          "start"; "tools" inside the for loop over the tool   *)
(*                    calls; "second" before the second completion call;   *)
(*                    "returned" / "raised" when route_query has ended     *)
(*   orch.message     the message routed                                   *)
(*   orch.history     len(chat_history)                                    *)
(*   orch.handler     the handler chosen                                   *)
(*   orch.requested   response_message.tool_calls of the first response    *)
(*   orch.executed    the mcp_client.call_tool calls made, in order        *)
(*   orch.messages    the turns appended to the messages list after the    *)
(*                    user turn                                            *)
(*   orch.model_calls the chat.completions.create calls made, in order     *)
(*   orch.result      the dict returned                                    *)
(***************************************************************************)
MaxToolCalls == 2

INSURANCE_KEYWORDS ==
    <<<<"i", "n", "s", "u", "r", "a", "n", "c", "e">>,
      <<"p", "o", "l", "i", "c", "y">>,
      <<"p", "o", "l", "i", "c", "i", "e", "s">>,
      <<"c", "l", "a", "i", "m">>,
      <<"c", "l", "a", "i", "m", "s">>,
      <<"a", "g", "e", "n", "t">>,
      <<"a", "g", "e", "n", "t", "s">>,
      <<"c", "u", "s", "t", "o", "m", "e", "r">>,
      <<"c", "u", "s", "t", "o", "m", "e", "r", "s">>,
      <<"p", "a", "y", "m", "e", "n", "t">>,
      <<"p", "a", "y", "m", "e", "n", "t", "s">>,
      <<"p", "r", "e", "m", "i", "u", "m">>,
      <<"c", "o", "v", "e", "r", "a", "g", "e">>,
      <<"p", "o", "l", "i", "c", "y", "h", "o", "l", "d", "e", "r">>,
      <<"i", "n", "s", "u", "r", "e", "d">>,
      <<"b", "e", "n", "e", "f", "i", "c", "i", "a", "r", "y">>,
      <<"d", "e", "d", "u", "c", "t", "i", "b", "l", "e">>>>

\* str.lower() on the letters A-Z.
LowerCase ==
    [A |-> "a", B |-> "b", C |-> "c", D |-> "d", E |-> "e", F |-> "f", G |-> "g",
     H |-> "h", I |-> "i", J |-> "j", K |-> "k", L |-> "l", M |-> "m", N |-> "n",
     O |-> "o", P |-> "p", Q |-> "q", R |-> "r", S |-> "s", T |-> "t", U |-> "u",
     V |-> "v", W |-> "w", X |-> "x", Y |-> "y", Z |-> "z"]

Lower(text) ==
    [i \in DOMAIN text |->
        IF text[i] \in DOMAIN LowerCase THEN LowerCase[text[i]] ELSE text[i]]

\* "keyword in message_lower"
Contains(text, keyword) ==
    \E i \in 1..(Len(text) - Len(keyword) + 1) :
        SubSeq(text, i, i + Len(keyword) - 1) = keyword

is_insurance_query_case_sensitive(message) ==
    \E n \in DOMAIN INSURANCE_KEYWORDS : Contains(message, INSURANCE_KEYWORDS[n])
is_insurance_query(message) ==
    \E n \in DOMAIN INSURANCE_KEYWORDS : Contains(Lower(message), INSURANCE_KEYWORDS[n])

\* The messages routed: one or two fragments, so that keywords appear in
\* either case, inside longer words, across a fragment boundary or not at
\* all.
MessagePieces ==
    {<<>>,
     <<"r", "e">>,
     <<"c", "l", "a", "i", "m">>,
     <<"C", "L", "A", "I", "M">>,
     <<"e", "d">>,
     <<"p", "r", "e">>,
     <<"m", "i", "u", "m">>,
     <<"A", "g", "e", "n">>,
     <<"t">>,
     <<"d", "a">>,
     <<" ", "h", "i", " ">>}

RoutedMessages == {p \o q : p \in MessagePieces, q \in MessagePieces}

HistoryLengths == {0, 7}

\* chat_history[-n:]
LastTurns(history, n) == IF history < n THEN history ELSE n

\* The tool calls of a first response: ids are distinct; arguments_ok says
\* whether json.loads accepts the arguments text.
ToolCallNames == {"query_claims", "update_claim_status"}
ToolCallLists ==
    UNION {{calls \in [1..k -> [id : 1..k, name : ToolCallNames, arguments_ok : BOOLEAN]] :
               \A i, j \in 1..k : calls[i].id = calls[j].id => i = j} : k \in 0..MaxToolCalls}

\* The tool-result turn appended for a tool call.
ToolTurnUnkeyed(tool_call) ==
    [role |-> "tool", tool_call_id |-> 0, name |-> tool_call.name]
ToolTurn(tool_call) ==
    [role |-> "tool", tool_call_id |-> tool_call.id, name |-> tool_call.name]

\* messages.append(response_message): the assistant turn with its tool calls.
AssistantTurn == [role |-> "assistant", tool_call_id |-> 0, name |-> None]

\* A chat.completions.create call: whether tools were offered, how many
\* history turns were sent, and the turns sent after the user turn.
ModelCall(tools, history_turns, turns) ==
    [tools |-> tools, history_turns |-> history_turns, turns |-> turns]

NoAnswer == [content |-> None, type |-> None, tools_used |-> <<>>]

IdleOrch ==
    [pc |-> "idle", message |-> <<>>, history |-> 0, handler |-> None,
     requested |-> <<>>, executed |-> <<>>, messages |-> <<>>, model_calls |-> <<>>,
     result |-> NoAnswer]

\* route_query up to the end of the first completion call: the keyword test,
\* then handle_normal_chat (one call without tools) or the start of
\* handle_insurance_query (first call with the tool schema). A completion
\* call that raises ends route_query.
route_query ==
    /\ orch.pc = "start"
    /\ \E api_ok \in BOOLEAN, tool_calls \in ToolCallLists :
          IF ~is_insurance_query(orch.message)
            THEN /\ tool_calls = <<>>
                 /\ orch' = [orch EXCEPT
                       !.handler = "normal_chat",
                       !.model_calls = <<ModelCall(FALSE, LastTurns(orch.history, 10), <<>>)>>,
                       !.pc = IF api_ok THEN "returned" ELSE "raised",
                       !.result = IF api_ok
                                    THEN [content |-> "first", type |-> "normal_chat",
                                          tools_used |-> <<>>]
                                    ELSE NoAnswer]
          ELSE IF ~api_ok
            THEN /\ tool_calls = <<>>
                 /\ orch' = [orch EXCEPT
                       !.handler = "insurance",
                       !.model_calls = <<ModelCall(TRUE, LastTurns(orch.history, 5), <<>>)>>,
                       !.pc = "raised"]
          ELSE IF tool_calls = <<>>
            THEN orch' = [orch EXCEPT
                       !.handler = "insurance",
                       !.model_calls = <<ModelCall(TRUE, LastTurns(orch.history, 5), <<>>)>>,
                       !.pc = "returned",
                       !.result = [content |-> "first", type |-> "insurance",
                                   tools_used |-> <<>>]]
            ELSE orch' = [orch EXCEPT
                       !.handler = "insurance",
                       !.model_calls = <<ModelCall(TRUE, LastTurns(orch.history, 5), <<>>)>>,
                       !.requested = tool_calls,
                       !.messages = <<AssistantTurn>>,
                       !.pc = "tools"]
    /\ UNCHANGED othersOrch

\* One iteration of "for tool_call in tool_calls": json.loads of the
\* arguments (raises on text that is not JSON), call_tool (which returns a
\* JSON text whatever happens), append of the tool-result turn.
execute_tool_call ==
    /\ orch.pc = "tools"
    /\ LET tool_call == orch.requested[Len(orch.executed) + 1]
       IN  IF ~tool_call.arguments_ok
             THEN orch' = [orch EXCEPT !.pc = "raised"]
             ELSE orch' = [orch EXCEPT
                    !.executed = Append(@, [id |-> tool_call.id, name |-> tool_call.name]),
                    !.messages = Append(@, ToolTurn(tool_call)),
                    !.pc = IF Len(orch.executed) + 1 = Len(orch.requested)
                             THEN "second" ELSE "tools"]
    /\ UNCHANGED othersOrch

\* The second completion call, without tools, and the return.
second_model_call ==
    /\ orch.pc = "second"
    /\ \E api_ok \in BOOLEAN :
          orch' = [orch EXCEPT
             !.model_calls = Append(@, ModelCall(FALSE, LastTurns(orch.history, 5),
                                                 orch.messages)),
             !.pc = IF api_ok THEN "returned" ELSE "raised",
             !.result = IF api_ok
                          THEN [content |-> "second", type |-> "insurance",
                                tools_used |-> [i \in DOMAIN orch.requested |->
                                                   orch.requested[i].name]]
                          ELSE NoAnswer]
    /\ UNCHANGED othersOrch

(***************************************************************************)
(* Context optimization: ContextOptimizationService.optimize_context.      *)
(*   opt.context     the ConversationContext passed: messages              *)
(*                   [id, words, token_count], retrieved_context           *)
(*                   [id, content, words], total_tokens as the caller set  *)
(*                   it                                                    *)
(*   opt.target      target_tokens                                         *)
(*   opt.strategies  the strategies argument                               *)
(*   opt.result      the OptimizationResult                                *)
(* The class body ends at line 569: _are_messages_similar,                 *)
(* _compress_message_content, _score_message_quality,                      *)
(* _score_document_quality, _calculate_coherence_score and                 *)
(* _calculate_information_density are defined after a module-level return  *)
(* statement and are not attributes of the service, so a call of one of    *)
(* them raises AttributeError inside the try block of its caller.          *)
(***************************************************************************)
MaxOptMessages == 2
MaxOptDocs == 2

OptTargets == {39, 90}
OptDocumentChoices == {[content |-> "a", words |-> 20], [content |-> "b", words |-> 60]}

DefaultStrategies ==
    <<"remove_redundant", "compress_repetitive", "prioritize_quality", "truncate_oldest">>
StrategyLists ==
    {DefaultStrategies, <<"truncate_oldest">>, <<"semantic_summarization", "remove_redundant">>}

\* "original_tokens <= target_tokens" and the test at the head of the loop.
WithinTargetStrict(tokens, target) == tokens < target
WithinTarget(tokens, target) == tokens <= target

OptContext(msgs, docs, total) ==
    [messages |-> msgs, retrieved_context |-> docs, total_tokens |-> total]

\* Documents whose content was not seen before, in order.
RECURSIVE UniqueDocs(_, _)
UniqueDocs(docs, seen) ==
    IF docs = <<>> THEN <<>>
    ELSE IF Head(docs).content \in seen THEN UniqueDocs(Tail(docs), seen)
    ELSE <<Head(docs)>> \o UniqueDocs(Tail(docs), seen \cup {Head(docs).content})

\* _remove_redundant_content: the second message reaches
\* self._are_messages_similar, which raises; the handler returns the context
\* as it came.
RemoveRedundantContent(c) ==
    IF Len(c.messages) >= 2 THEN c
    ELSE LET docs == UniqueDocs(c.retrieved_context, {})
         IN  OptContext(c.messages, docs,
                        CalculateMessageTokens(c.messages) + CalculateDocumentTokens(docs))

\* _compress_repetitive_content: the first message reaches
\* self._compress_message_content, which raises.
CompressRepetitiveContent(c) ==
    IF c.messages # <<>> THEN c
    ELSE OptContext(<<>>, c.retrieved_context, CalculateDocumentTokens(c.retrieved_context))

\* _prioritize_by_quality: scoring the first message or the first document
\* raises.
PrioritizeByQuality(c, target) ==
    IF c.messages # <<>> \/ c.retrieved_context # <<>> THEN c
    ELSE OptContext(<<>>, <<>>, 0)

\* _truncate_to_limit: documents in order, skipping those that do not fit
\* int(target * 0.3); messages from the most recent backwards, stopping at
\* the first that does not fit the rest of the target.
RECURSIVE TruncateDocs(_, _, _)
TruncateDocs(docs, used, budget) ==
    IF docs = <<>> THEN <<>>
    ELSE IF used + DocumentTokens(Head(docs)) <= budget
      THEN <<Head(docs)>> \o TruncateDocs(Tail(docs), used + DocumentTokens(Head(docs)), budget)
      ELSE TruncateDocs(Tail(docs), used, budget)

\* The same loop with selected_messages.append(message).
RECURSIVE TruncateMessagesAppended(_, _, _)
TruncateMessagesAppended(msgs, used, budget) ==
    IF msgs = <<>> THEN <<>>
    ELSE LET last == msgs[Len(msgs)]
         IN  IF used + MessageTokens(last) <= budget
               THEN <<last>> \o TruncateMessagesAppended(SubSeq(msgs, 1, Len(msgs) - 1),
                                                        used + MessageTokens(last), budget)
               ELSE <<>>

RECURSIVE TruncateMessages(_, _, _)
TruncateMessages(msgs, used, budget) ==
    IF msgs = <<>> THEN <<>>
    ELSE LET last == msgs[Len(msgs)]
         IN  IF used + MessageTokens(last) <= budget
               THEN TruncateMessages(SubSeq(msgs, 1, Len(msgs) - 1),
                                     used + MessageTokens(last), budget) \o <<last>>
               ELSE <<>>

TruncateToLimit(c, target) ==
    LET doc_budget     == DocTokenBudget(target)
        message_budget == target - doc_budget
        docs           == TruncateDocs(c.retrieved_context, 0, doc_budget)
        msgs           == TruncateMessages(c.messages, 0, message_budget)
    IN  OptContext(msgs, docs, CalculateMessageTokens(msgs) + CalculateDocumentTokens(docs))

\* One strategy of the loop; a member of CompressionStrategy that has no
\* branch is skipped without being recorded.
ApplyStrategy(strategy, c, target) ==
    CASE strategy = "remove_redundant"    -> RemoveRedundantContent(c)
      [] strategy = "compress_repetitive" -> CompressRepetitiveContent(c)
      [] strategy = "prioritize_quality"  -> PrioritizeByQuality(c, target)
      [] strategy = "truncate_oldest"     -> TruncateToLimit(c, target)
      [] OTHER                            -> c

\* "for strategy in strategies": stops once the running context is within
\* the target.
RECURSIVE StrategyLoop(_, _, _, _)
StrategyLoop(strategies, c, target, applied) ==
    IF strategies = <<>> \/ WithinTarget(c.total_tokens, target)
      THEN [context |-> c, strategies_applied |-> applied]
      ELSE StrategyLoop(Tail(strategies), ApplyStrategy(Head(strategies), c, target), target,
                        IF Head(strategies) \in {DefaultStrategies[i] : i \in 1..4}
                          THEN Append(applied, Head(strategies)) ELSE applied)

\* optimize_context. compression_ratio is kept as the fraction
\* optimized_tokens / original_tokens (1/1 for the literal 1.0).
OptimizeContext(context, target, strategies) ==
    IF WithinTarget(context.total_tokens, target)
      THEN [optimized_context |-> context, original_tokens |-> context.total_tokens,
            optimized_tokens |-> context.total_tokens,
            compression_ratio |-> [num |-> 1, den |-> 1], strategies_applied |-> <<>>]
      ELSE LET out == StrategyLoop(strategies, context, target, <<>>)
           IN  [optimized_context |-> out.context, original_tokens |-> context.total_tokens,
                optimized_tokens |-> out.context.total_tokens,
                compression_ratio |-> IF context.total_tokens > 0
                                        THEN [num |-> out.context.total_tokens,
                                              den |-> context.total_tokens]
                                        ELSE [num |-> 1, den |-> 1],
                strategies_applied |-> out.strategies_applied]

NoOptimization ==
    [optimized_context |-> OptContext(<<>>, <<>>, 0), original_tokens |-> 0,
     optimized_tokens |-> 0, compression_ratio |-> [num |-> 0, den |-> 1],
     strategies_applied |-> <<>>]

OptDocs(dm) == [i \in DOMAIN dm |-> [id |-> i, content |-> dm[i].content, words |-> dm[i].words]]

IdleOpt ==
    [pc |-> "idle", context |-> OptContext(<<>>, <<>>, 0), target |-> 0,
     strategies |-> <<>>, result |-> NoOptimization]

optimize_context ==
    /\ opt.pc = "input"
    /\ opt' = [opt EXCEPT !.pc = "done",
                          !.result = OptimizeContext(opt.context, opt.target, opt.strategies)]
    /\ UNCHANGED othersOpt

(***************************************************************************)
(* Process-wide services: the module globals rag_service (rag_service.py)  *)
(* and context_service (context_service.py) with their get_ and            *)
(* initialize_ functions.                                                  *)
(*   sv.instance   service -> the global: 0 for None, else the number of   *)
(*                 the instance it refers to                               *)
(*   sv.made       service -> the instance the last successful constructor *)
(*                 call produced (0 when there was none)                   *)
(*   sv.count      instances constructed so far                            *)
(*   sv.calls      calls made so far                                       *)
(*   sv.last       observation of the last call                            *)
(***************************************************************************)
MaxServiceCalls == 4

Services == {"rag", "context"}

SvcObs(op, service, outcome, returned) ==
    [op |-> op, service |-> service, outcome |-> outcome, returned |-> returned]

IdleSvc ==
    [instance |-> [rag |-> 0, context |-> 0], made |-> [rag |-> 0, context |-> 0],
     count |-> 0, calls |-> 0, last |-> SvcObs("init", None, None, 0)]

\* The global after initialize_*: the assignment is the last step of the
\* constructor expression, so a constructor that raises leaves the global
\* as it was.
GlobalAfterInitializeCleared(current, instance, constructed) ==
    IF constructed THEN instance ELSE 0
GlobalAfterInitialize(current, instance, constructed) ==
    IF constructed THEN instance ELSE current

\* initialize_rag_service / initialize_context_service
InitializeService(service) ==
    /\ sv.calls < MaxServiceCalls
    /\ \E constructed \in BOOLEAN :
          sv' = [sv EXCEPT
             !.instance[service] = GlobalAfterInitialize(@, sv.count + 1, constructed),
             !.made[service] = IF constructed THEN sv.count + 1 ELSE @,
             !.count = IF constructed THEN @ + 1 ELSE @,
             !.calls = @ + 1,
             !.last = SvcObs("initialize", service, IF constructed THEN "True" ELSE "False", 0)]
    /\ UNCHANGED othersSvc

\* get_rag_service / get_context_service
GetService(service) ==
    /\ sv.calls < MaxServiceCalls
    /\ sv' = [sv EXCEPT
          !.calls = @ + 1,
          !.last = IF sv.instance[service] = 0
                     THEN SvcObs("get", service, "RuntimeError", 0)
                     ELSE SvcObs("get", service, "returned", sv.instance[service])]
    /\ UNCHANGED othersSvc

initialize_rag_service == InitializeService("rag")
get_rag_service == GetService("rag")
initialize_context_service == InitializeService("context")
get_context_service == GetService("context")

(***************************************************************************)
(* Health endpoint: health_check of app/routes/chat.py with its dependency *)
(* get_chat_service, and ChatService.health_check.                         *)
(*   hc   the requests answered so far, oldest first: what the             *)
(*        environment did during the request, the report of the service    *)
(*        (status None when it returned none) and the HTTP response        *)
(***************************************************************************)
MaxHealthChecks == 3

\* What can happen during one request: the service cannot be constructed,
\* service.health_check() itself raises, or its minimal completion call
\* succeeds or raises one of the provider's exceptions.
HealthOutcomes ==
    {"no_service", "check_raises", "ok", "AuthenticationError", "RateLimitError",
     "APIConnectionError", "Exception"}

\* ChatService.health_check: the report for the outcome of the test call.
ServiceHealthReport(api) ==
    CASE api = "ok" -> [status |-> "healthy", api_connection |-> "ok"]
      [] api = "AuthenticationError" ->
            [status |-> "unhealthy", api_connection |-> "authentication_failed"]
      [] api = "RateLimitError" -> [status |-> "degraded", api_connection |-> "rate_limited"]
      [] api = "APIConnectionError" ->
            [status |-> "unhealthy", api_connection |-> "connection_failed"]
      [] OTHER -> [status |-> "unhealthy", api_connection |-> "failed"]

\* "if health_status.get('status') == 'healthy'"
StatusCodeLenient(health_status) ==
    IF health_status.status \in {"healthy", "degraded"} THEN 200 ELSE 503
StatusCode(health_status) ==
    IF health_status.status = "healthy" THEN 200 ELSE 503

NoReport == [status |-> None, api_connection |-> None]

\* The route handler for one request.
HealthResponse(outcome) ==
    IF outcome = "no_service"
      THEN [outcome |-> outcome, report |-> NoReport, status_code |-> 503,
            body_status |-> None]
    ELSE IF outcome = "check_raises"
      THEN [outcome |-> outcome, report |-> NoReport, status_code |-> 503,
            body_status |-> "unhealthy"]
    ELSE [outcome |-> outcome, report |-> ServiceHealthReport(outcome),
          status_code |-> StatusCode(ServiceHealthReport(outcome)),
          body_status |-> ServiceHealthReport(outcome).status]

IdleHealth == <<>>

health_check ==
    /\ Len(hc) < MaxHealthChecks
    /\ \E outcome \in HealthOutcomes : hc' = Append(hc, HealthResponse(outcome))
    /\ UNCHANGED othersHealth

(***************************************************************************)
(* Text chunking: EmbeddingService.chunk_text. Text is a sequence of       *)
(* one-character strings; positions are Python's, counted from 0.          *)
(*   ck.pc      "input", "loop" (at the while test), "returned"            *)
(*   ck.text    the text (stripped once the call has begun)                *)
(*   ck.start   the loop's start position                                  *)
(*   ck.chunks  the chunks collected                                       *)
(*   ck.steps   loop iterations run                                        *)
(***************************************************************************)
MaxTextLen == 5
MaxChunkSize == 3
MaxChunkSteps == 6

TextChars == {"a", " ", "."}
Texts == UNION {[1..n -> TextChars] : n \in 0..MaxTextLen}

\* A slice bound as Python clamps it: negative bounds count from the end.
ClampIndex(i, n) ==
    IF i < 0 THEN (IF i + n < 0 THEN 0 ELSE i + n)
    ELSE IF i > n THEN n ELSE i

\* text.rfind(ch, start, end)
RFind(text, ch, start, end) ==
    LET found == {i \in ClampIndex(start, Len(text))..(ClampIndex(end, Len(text)) - 1) :
                     text[i + 1] = ch}
    IN  IF found = {} THEN 0 - 1 ELSE CHOOSE i \in found : \A j \in found : j <= i

\* text[start:end]
Slice(text, start, end) ==
    SubSeq(text, ClampIndex(start, Len(text)) + 1, ClampIndex(end, Len(text)))

\* text.strip()
RECURSIVE Strip(_)
Strip(text) ==
    IF text = <<>> THEN <<>>
    ELSE IF Head(text) = " " THEN Strip(Tail(text))
    ELSE IF text[Len(text)] = " " THEN Strip(SubSeq(text, 1, Len(text) - 1))
    ELSE text

\* The end of the chunk that begins at start: start + chunk_size, moved back
\* to just after the last sentence mark of the window, or else to its last
\* blank, when the window ends before the text does.
ChunkEnd(text, start, chunk_size) ==
    LET end          == start + chunk_size
        marks        == {RFind(text, ".", start, end), RFind(text, "!", start, end),
                         RFind(text, "?", start, end)}
        sentence_end == CHOOSE m \in marks : \A x \in marks : x <= m
        word_end     == RFind(text, " ", start, end)
    IN  IF end >= Len(text) THEN end
        ELSE IF sentence_end > start THEN sentence_end + 1
        ELSE IF word_end > start THEN word_end
        ELSE end

\* "start = end - overlap if end < len(text) else end"
NextStart(text, end, overlap) == IF end < Len(text) THEN end - overlap ELSE end

IdleChunk ==
    [pc |-> "idle", text |-> <<>>, chunk_size |-> 1, overlap |-> 0, start |-> 0,
     chunks |-> <<>>, steps |-> 0]

\* chunk_text up to the while loop.
chunk_text ==
    /\ ck.pc = "input"
    /\ ck' = IF Strip(ck.text) = <<>>
               THEN [ck EXCEPT !.pc = "returned"]
             ELSE IF Len(Strip(ck.text)) <= ck.chunk_size
               THEN [ck EXCEPT !.pc = "returned", !.text = Strip(ck.text),
                               !.chunks = <<Strip(ck.text)>>]
               ELSE [ck EXCEPT !.pc = "loop", !.text = Strip(ck.text)]
    /\ UNCHANGED othersChunk

\* The while test and one iteration of the loop.
chunk_text_loop ==
    /\ ck.pc = "loop"
    /\ ck.steps < MaxChunkSteps
    /\ IF ck.start >= Len(ck.text)
         THEN ck' = [ck EXCEPT !.pc = "returned"]
         ELSE LET end   == ChunkEnd(ck.text, ck.start, ck.chunk_size)
                  chunk == Strip(Slice(ck.text, ck.start, end))
              IN  ck' = [ck EXCEPT
                     !.chunks = IF chunk # <<>> THEN Append(@, chunk) ELSE @,
                     !.start = NextStart(ck.text, end, ck.overlap),
                     !.steps = @ + 1]
    /\ UNCHANGED othersChunk

(***************************************************************************)
(* Concurrent RAG chat calls on one session. Each request has its own      *)
(* database session; process_chat_message stores the user message through  *)
(* MessageService.create_user_message, whose create_message commits the    *)
(* message and refreshes it, which opens the transaction the count query   *)
(* then runs in.                                                           *)
(*   race.isolation  transaction isolation of the database                 *)
(*   race.prior      user messages the session held before the calls       *)
(*   race.committed  user messages of the session committed so far         *)
(*   race.name       0 while the session has the name it was given, else   *)
(*                   the call whose rename was committed last              *)
(*   race.pc         call -> "store", "refresh", "count", "rename",        *)
(*                   "reply", "done"                                       *)
(*   race.position   call -> place of its user message in commit order     *)
(*   race.snapshot   call -> user messages committed when the transaction  *)
(*                   of its count query began (at the refresh)             *)
(*   race.seen       call -> message_count it read (0 before it counted)   *)
(*   race.renamed    call -> whether it renamed the session                *)
(*   race.stores_first  no call has counted while another had yet to store *)
(***************************************************************************)
MaxChatCalls == 2

\* The count query: under REPEATABLE READ it reads the snapshot of its
\* transaction, under READ COMMITTED what is committed when it runs.
VisibleUserMessagesOwnOnly(isolation, snapshot, committed, prior) == prior + 1
VisibleUserMessages(isolation, snapshot, committed, prior) ==
    IF isolation = "repeatable_read" THEN snapshot ELSE committed

IdleRace ==
    [isolation |-> "repeatable_read", prior |-> 0, committed |-> 0, name |-> 0,
     pc |-> <<>>, position |-> <<>>, snapshot |-> <<>>, seen |-> <<>>, renamed |-> <<>>,
     stores_first |-> TRUE]

\* Step 1 of process_chat_message: MessageService.create_message adds the
\* user message and commits.
race_store_user ==
    /\ \E c \in DOMAIN race.pc :
          /\ race.pc[c] = "store"
          /\ race' = [race EXCEPT !.pc[c] = "refresh",
                                  !.committed = @ + 1,
                                  !.position[c] = race.committed + 1]
    /\ UNCHANGED othersRace

\* MessageService.create_message: refresh(message), the first read of the
\* next transaction.
race_refresh_user ==
    /\ \E c \in DOMAIN race.pc :
          /\ race.pc[c] = "refresh"
          /\ race' = [race EXCEPT !.pc[c] = "count",
                                  !.snapshot[c] = race.committed]
    /\ UNCHANGED othersRace

\* _update_session_name_if_first_message: the count query and its test.
race_count_user_messages ==
    /\ \E c \in DOMAIN race.pc :
          /\ race.pc[c] = "count"
          /\ LET message_count == VisibleUserMessages(race.isolation, race.snapshot[c],
                                                      race.committed, race.prior)
             IN  race' = [race EXCEPT
                    !.seen[c] = message_count,
                    !.pc[c] = IF IsFirstUserMessage(message_count) THEN "rename" ELSE "reply",
                    !.stores_first = @ /\ \A d \in DOMAIN race.pc : race.pc[d] # "store"]
    /\ UNCHANGED othersRace

\* _update_session_name_if_first_message: session.name = ...; commit. A
\* failure is swallowed.
race_rename_session ==
    /\ \E c \in DOMAIN race.pc, db_ok \in BOOLEAN :
          /\ race.pc[c] = "rename"
          /\ race' = [race EXCEPT !.pc[c] = "reply",
                                  !.renamed[c] = db_ok,
                                  !.name = IF db_ok THEN c ELSE @]
    /\ UNCHANGED othersRace

\* Steps 3 to 8 of process_chat_message.
race_reply ==
    /\ \E c \in DOMAIN race.pc :
          /\ race.pc[c] = "reply"
          /\ race' = [race EXCEPT !.pc[c] = "done"]
    /\ UNCHANGED othersRace


(***************************************************************************)
(* Document metadata: VectorRepository.update_document,                    *)
(* update_document_metadata and get_document on one stored document.       *)
(*   md.backend   the store that holds the document ("chroma" when the     *)
(*                repository uses the vector store, else "mysql")          *)
(*   md.present   the store still holds the document                       *)
(*   md.content   version of the stored content                            *)
(*   md.stored    the metadata dict stored with the document               *)
(*   md.supplied  the metadata the callers supplied: the dict given to     *)
(*                add_document, replaced or overlaid by the later updates  *)
(*                that returned a response                                 *)
(*   md.pending   what the last update call was and, after a metadata-only *)
(*                update that returned a response, the metadata and        *)
(*                content a reader is to find                              *)
(*   md.last      the last call and what it returned                       *)
(*   md.calls     number of calls so far                                   *)
(***************************************************************************)
MaxMetaCalls == 3

CallerKeys == {"topic", "lang"}
MetaValues == {"a", "b"}
Dicts == UNION {[K -> MetaValues] : K \in SUBSET CallerKeys}

\* {**a, **b}
Overlay(a, b) ==
    [k \in DOMAIN a \cup DOMAIN b |-> IF k \in DOMAIN b THEN b[k] ELSE a[k]]

SystemFields(K) == [k \in K |-> "system"]

\* The system fields add_document stores with the caller's metadata.
StoredOnAdd(backend, metadata) ==
    Overlay(metadata,
            SystemFields(IF backend = "chroma"
                           THEN {"created_at", "token_count"}
                           ELSE {"created_at", "token_count", "embedding_dimension"}))

\* The system fields both update methods store with new_metadata.
StoredOnUpdate(backend, new_metadata) ==
    Overlay(new_metadata,
            SystemFields(IF backend = "chroma"
                           THEN {"created_at", "updated_at", "token_count"}
                           ELSE {"created_at", "updated_at", "token_count",
                                 "embedding_dimension"}))

\* The keys get_document leaves out of DocumentResponse.metadata.
HiddenKeys(backend) ==
    IF backend = "chroma" THEN {"created_at", "token_count"}
    ELSE {"created_at", "token_count", "embedding_dimension"}

\* DocumentResponse.metadata of get_document.
GetView(backend, stored) ==
    [k \in DOMAIN stored \ HiddenKeys(backend) |-> stored[k]]

\* What the external calls of one update do: all work, or one of them raises.
MetaOutcomes(backend) ==
    IF backend = "chroma"
      THEN {"ok", "get_fails", "embed_fails", "delete_fails", "add_fails"}
      ELSE {"ok", "get_fails", "embed_fails", "commit_fails"}

NoDict == <<>>
MetaObs(op, status, metadata, content) ==
    [op |-> op, status |-> status, metadata |-> metadata, content |-> content]
NoPending == [kind |-> None, metadata |-> NoDict, content |-> 0]
IdleMeta ==
    [backend |-> "mysql", present |-> FALSE, content |-> 0, stored |-> NoDict,
     supplied |-> NoDict, pending |-> NoPending,
     last |-> MetaObs("init", None, NoDict, 0), calls |-> 0]

\* The vector-store branch deletes and re-adds; a failed add leaves the
\* document deleted, a failed delete falls back to the Embedding table,
\* which has no row for a document of the vector store.
StoreUpdate(d, stored1, content1, out) ==
    IF out = "ok" THEN [d EXCEPT !.stored = stored1, !.content = content1]
    ELSE IF out = "add_fails" THEN [d EXCEPT !.present = FALSE]
    ELSE d

meta_update_document ==
    /\ md.calls < MaxMetaCalls
    /\ \E content_given \in BOOLEAN, metadata_given \in BOOLEAN, metadata \in Dicts,
          out \in MetaOutcomes(md.backend) :
       /\ ~metadata_given => metadata = NoDict
       /\ LET found        == md.present /\ out # "get_fails"
              existing     == GetView(md.backend, md.stored)
              new_metadata == IF metadata_given THEN metadata ELSE existing
              content1     == md.content + 1
              d1 == IF found /\ content_given /\ out # "embed_fails"
                      THEN StoreUpdate(md, StoredOnUpdate(md.backend, new_metadata),
                                       content1, out)
                      ELSE md
              returned == found /\ (~content_given \/ out = "ok")
              supplied1 == IF ~returned THEN md.supplied
                           ELSE IF ~metadata_given THEN md.supplied
                           ELSE IF content_given THEN metadata
                           ELSE Overlay(md.supplied, metadata)
          IN  md' = [d1 EXCEPT
                 !.calls = md.calls + 1,
                 !.supplied = supplied1,
                 !.pending = IF returned /\ ~content_given /\ metadata_given
                               THEN [kind |-> "metadata_only", metadata |-> supplied1,
                                     content |-> md.content]
                               ELSE [NoPending EXCEPT !.kind = "update"],
                 !.last = IF returned
                            THEN MetaObs("update_document", "updated", new_metadata,
                                         IF content_given THEN content1 ELSE md.content)
                            ELSE MetaObs("update_document", None, NoDict, 0)]
    /\ UNCHANGED othersMeta

meta_update_document_metadata ==
    /\ md.calls < MaxMetaCalls
    /\ \E metadata_updates \in Dicts, out \in MetaOutcomes(md.backend) \ {"embed_fails"} :
       LET found        == md.present /\ out # "get_fails"
           existing     == GetView(md.backend, md.stored)
           new_metadata == Overlay(existing, metadata_updates)
           d1 == IF found
                   THEN StoreUpdate(md, StoredOnUpdate(md.backend, new_metadata),
                                    md.content, out)
                   ELSE md
           returned  == found /\ out = "ok"
           supplied1 == IF returned THEN Overlay(md.supplied, metadata_updates)
                        ELSE md.supplied
       IN  md' = [d1 EXCEPT
              !.calls = md.calls + 1,
              !.supplied = supplied1,
              !.pending = IF returned
                            THEN [kind |-> "metadata_only", metadata |-> supplied1,
                                  content |-> md.content]
                            ELSE [NoPending EXCEPT !.kind = "update"],
              !.last = IF returned
                         THEN MetaObs("update_document_metadata", "updated",
                                      new_metadata, md.content)
                         ELSE MetaObs("update_document_metadata", None, NoDict, 0)]
    /\ UNCHANGED othersMeta

meta_get_document ==
    /\ md.calls < MaxMetaCalls
    /\ \E ok \in BOOLEAN :
          md' = [md EXCEPT
             !.calls = md.calls + 1,
             !.last = IF md.present /\ ok
                        THEN MetaObs("get_document", "found",
                                     GetView(md.backend, md.stored), md.content)
                        ELSE MetaObs("get_document", None, NoDict, 0)]
    /\ UNCHANGED othersMeta


(***************************************************************************)
(* Threaded messages: MessageRepository.create_threaded_message over the   *)
(* messages table, whose rows MessageService.create_message stores.        *)
(*   th.rows     the message rows in creation order (a row's id is its     *)
(*               index): parent_message_id and thread_id, 0 standing for   *)
(*               none. The table (app/database/models.py) has neither      *)
(*               column, so a row the service stored has none.             *)
(*   th.last     outcome of the last call, th.cause what raised            *)
(*   th.request  the arguments and the database outcome of the last call   *)
(*   th.calls    number of create_threaded_message calls so far            *)
(***************************************************************************)
MaxThreadCalls == 4
MaxThreadRows == 3

NoParent == 0
NoThread == 0

NoThreadRequest == [session_exists |-> FALSE, parent_message_id |-> NoParent, db_ok |-> FALSE]

IdleThread == [rows |-> <<>>, last |-> "init", cause |-> None,
               request |-> NoThreadRequest, calls |-> 0]

\* MessageService.create_message for an existing session: a row without
\* parent or thread.
thread_store_message ==
    /\ Len(th.rows) < MaxThreadRows
    /\ th' = [th EXCEPT !.rows = Append(@, [parent_message_id |-> NoParent,
                                            thread_id |-> NoThread]),
                        !.last = "stored", !.cause = None,
                        !.request = NoThreadRequest]
    /\ UNCHANGED othersThread

\* How one create_threaded_message call ends. With a parent found, line 619
\* reads parent_message.thread_id, which a Message row does not have; without
\* a parent, line 629 reads message_create.message_metadata, which
\* MessageCreate does not have. Either AttributeError reaches the generic
\* handler, so no call gets as far as db_session.add.
ThreadedOutcome(rows, session_exists, parent_message_id, db_ok) ==
    IF ~db_ok
      THEN [last |-> "MessageRepositoryError", cause |-> "SQLAlchemyError"]
    ELSE IF ~session_exists
      THEN [last |-> "SessionNotFoundError", cause |-> None]
    ELSE IF parent_message_id # NoParent /\ parent_message_id \notin DOMAIN rows
      THEN [last |-> "MessageNotFoundError", cause |-> None]
    ELSE IF parent_message_id # NoParent
      THEN [last |-> "MessageRepositoryError", cause |-> "thread_id"]
    ELSE [last |-> "MessageRepositoryError", cause |-> "message_metadata"]

create_threaded_message ==
    /\ th.calls < MaxThreadCalls
    /\ \E session_exists \in BOOLEAN, db_ok \in BOOLEAN,
          parent_message_id \in 0..(Len(th.rows) + 1) :
       LET out == ThreadedOutcome(th.rows, session_exists, parent_message_id, db_ok)
       IN  th' = [th EXCEPT !.calls = @ + 1, !.last = out.last, !.cause = out.cause,
                            !.request = [session_exists |-> session_exists,
                                         parent_message_id |-> parent_message_id,
                                         db_ok |-> db_ok]]
    /\ UNCHANGED othersThread


(***************************************************************************)
(* Prompt of a RAG chat turn: RAGChatService.process_chat_message with     *)
(* _generate_response, one session, one call at a time.                    *)
(*   bp.stored        the message rows of the session in timestamp order:  *)
(*                    [id, role]                                           *)
(*   bp.pc            "idle", "stored" (user message stored), "loaded"     *)
(*                    (history read)                                       *)
(*   bp.current       id of the user message being answered                *)
(*   bp.history_ok    the history query of the turn worked                 *)
(*   bp.chat_history  what get_session_messages returned                   *)
(*   bp.prompt        the messages list of the completion request of the   *)
(*                    turn (empty until it is built): [role, id], id 0 for *)
(*                    the system message                                   *)
(*   bp.turns         turns begun so far                                   *)
(***************************************************************************)
MaxPriorMessages == 9
MaxPromptTurns == 2

HistoryWindow == 8

\* chat_history[-8:] if len(chat_history) > 8 else chat_history
RecentHistory(chat_history) ==
    IF Len(chat_history) > HistoryWindow THEN LastN(chat_history, HistoryWindow)
    ELSE chat_history

\* s[:-1]
AllButLast(s) == IF s = <<>> THEN <<>> ELSE SubSeq(s, 1, Len(s) - 1)

PromptTurn(m) == [role |-> m.role, id |-> m.id]
SystemTurn == [role |-> "system", id |-> 0]

\* _generate_response: the messages list sent to the model.
BuildPrompt(chat_history, current) ==
    LET recent_history == RecentHistory(chat_history)
        turns == SelectSeq(AllButLast(recent_history),
                           LAMBDA m : m.role \in {"user", "assistant"})
    IN  <<SystemTurn>> \o [i \in DOMAIN turns |-> PromptTurn(turns[i])]
           \o <<[role |-> "user", id |-> current]>>

\* Rows a session can hold when the model starts: answered turns.
PriorRows(n) == [i \in 1..n |-> [id |-> i, role |-> IF i % 2 = 1 THEN "user" ELSE "assistant"]]

IdlePrompt ==
    [stored |-> <<>>, pc |-> "idle", current |-> 0, history_ok |-> FALSE,
     chat_history |-> <<>>, prompt |-> <<>>, turns |-> 0]

\* The except clause of process_chat_message: create_assistant_message with
\* the apology, which raises in its turn when that write fails.
StoreApology(stored, handler_ok) ==
    IF handler_ok THEN Append(stored, [id |-> Len(stored) + 1, role |-> "assistant"])
    ELSE stored

\* How a database write of the turn ends: it works, or it raises and the
\* write of the except clause works, or that one raises too.
WriteOutcomes == {"stored", "apology_stored", "raised"}

\* Step 1: create_user_message. When it raises the turn ends in the except
\* clause without a prompt.
prompt_store_user ==
    /\ bp.pc = "idle"
    /\ bp.turns < MaxPromptTurns
    /\ \E write \in WriteOutcomes :
          LET id == Len(bp.stored) + 1
          IN  bp' = IF write = "stored"
                      THEN [bp EXCEPT !.stored = Append(@, [id |-> id, role |-> "user"]),
                                      !.current = id, !.pc = "stored",
                                      !.prompt = <<>>, !.turns = @ + 1]
                      ELSE [bp EXCEPT !.stored = StoreApology(@, write = "apology_stored"),
                                      !.prompt = <<>>, !.turns = @ + 1]
    /\ UNCHANGED othersPrompt

\* Step 4: get_session_messages, which returns no message when the query
\* raises.
prompt_load_history ==
    /\ bp.pc = "stored"
    /\ \E db_ok \in BOOLEAN :
          bp' = [bp EXCEPT !.pc = "loaded", !.history_ok = db_ok,
                           !.chat_history = IF db_ok THEN bp.stored ELSE <<>>]
    /\ UNCHANGED othersPrompt

\* Steps 6 and 7: _generate_response builds the prompt and calls the model;
\* the reply (or the apology of _generate_response) is stored, and when that
\* write raises the except clause stores its apology.
prompt_generate_response ==
    /\ bp.pc = "loaded"
    /\ \E write \in WriteOutcomes :
          bp' = [bp EXCEPT
             !.pc = "idle",
             !.prompt = BuildPrompt(bp.chat_history, bp.current),
             !.stored = IF write = "stored"
                          THEN Append(@, [id |-> Len(bp.stored) + 1, role |-> "assistant"])
                          ELSE StoreApology(@, write = "apology_stored")]
    /\ UNCHANGED othersPrompt


(***************************************************************************)
(* Prompt of the session-aware chat flow:                                  *)
(* ChatService.generate_response_with_context with _build_context_messages *)
(* and _truncate_context_if_needed.                                        *)
(*   cp.messages   context.messages: [role, words], words the number of    *)
(*                 words of the content                                    *)
(*   cp.documents  context.retrieved_documents: the words of each document *)
(*                 as listed in the system message                         *)
(*   cp.pc         "input", then "returned" or "raised"                    *)
(*   cp.built      the list _build_context_messages returned               *)
(*   cp.prompt     the list handed to the provider call                    *)
(* Token estimates are kept in tenths: a message of w words counts 13 w.   *)
(***************************************************************************)
MaxCtxMessages == 3
MaxCtxDocs == 2

max_context_tokens == 8000

CtxMessageChoices == {[role |-> r, words |-> w] : r \in {"user", "assistant"},
                                                  w \in {10, 3000, 7000}}
CtxDocumentWords == {20, 80}

RECURSIVE WordSum(_)
WordSum(s) == IF s = <<>> THEN 0 ELSE Head(s) + WordSum(Tail(s))

\* _build_system_message_with_rag: the fixed text has 62 words; each listed
\* document (without a source) adds its number and its content.
SystemMessageWords(documents) ==
    62 + Len(documents) + WordSum(documents)

\* _build_context_messages
BuildContextMessages(msgs, documents) ==
    (IF documents # <<>>
       THEN <<[role |-> "system", words |-> SystemMessageWords(documents)]>>
       ELSE <<>>) \o msgs

\* sum(len(msg["content"].split()) * 1.3 for msg in messages), in tenths
PromptTokens10(msgs) == 13 * WordSum([i \in DOMAIN msgs |-> msgs[i].words])

\* The while loop: pop the oldest chat message until the estimate fits.
RECURSIVE PopOldest(_, _)
PopOldest(chat_messages, total10) ==
    IF chat_messages # <<>> /\ total10 > 10 * max_context_tokens
      THEN PopOldest(Tail(chat_messages), total10 - 13 * Head(chat_messages).words)
      ELSE chat_messages

\* _truncate_context_if_needed
TruncateContextIfNeeded(msgs) ==
    LET total10 == PromptTokens10(msgs)
    IN  IF total10 <= 10 * max_context_tokens THEN msgs
        ELSE SelectSeq(msgs, LAMBDA m : m.role = "system")
                \o PopOldest(SelectSeq(msgs, LAMBDA m : m.role # "system"), total10)

IdleCtxPrompt ==
    [messages |-> <<>>, documents |-> <<>>, pc |-> "idle", built |-> <<>>, prompt |-> <<>>]

generate_response_with_context ==
    /\ cp.pc = "input"
    /\ \E api_ok \in BOOLEAN :
          LET built == BuildContextMessages(cp.messages, cp.documents)
          IN  cp' = [cp EXCEPT !.pc = IF api_ok THEN "returned" ELSE "raised",
                               !.built = built,
                               !.prompt = TruncateContextIfNeeded(built)]
    /\ UNCHANGED othersCtxPrompt


(***************************************************************************)
(* Connection and cursor of one insurance tool call: call_tool of          *)
(* InsuranceMCPClient and of mcp_server/insurance_server.py, statement by  *)
(* statement.                                                              *)
(*   cn.side      "client" or "server"                                     *)
(*   cn.tool      "query", "update" or "unknown"                           *)
(*   cn.args_ok   whether an update carries both of its arguments          *)
(*   cn.fails     how many of the first connection attempts raise Error    *)
(*   cn.fault     what goes wrong after the connection is made             *)
(*   cn.attempt   the attempt number inside get_db_connection              *)
(*   cn.conn      "none" (conn is None), "open", "lost" (the connection    *)
(*                went down: is_connected() is False), "closed"            *)
(*   cn.cursor    "none" (cursor is None), "open", "closed"                *)
(*   cn.opened    whether get_db_connection returned a connection          *)
(*   cn.result    what the call returns                                    *)
(***************************************************************************)
max_retries == 3

ConnFaults == {"none", "cursor_error", "execute_error", "commit_error", "other_error",
               "connection_lost"}

\* if cursor: cursor.close()
FinallyCursor(cursor) == IF cursor # "none" THEN "closed" ELSE cursor

\* if conn and conn.is_connected(): conn.close()
FinallyConnLeftOpen(conn) == conn
FinallyConn(conn) == IF conn # "none" /\ conn = "open" THEN "closed" ELSE conn

IdleConn ==
    [pc |-> "idle", side |-> "client", tool |-> "query", args_ok |-> TRUE, fails |-> 0,
     fault |-> "none", attempt |-> 0, conn |-> "none", cursor |-> "none",
     opened |-> FALSE, result |-> "none"]

\* conn = get_db_connection(): one attempt of the retry loop. A failed
\* attempt before the last sleeps and retries; the last one raises Exception,
\* which the generic handler of call_tool turns into an error document.
conn_get_db_connection ==
    /\ cn.pc = "connect"
    /\ IF cn.attempt < cn.fails
         THEN IF cn.attempt < max_retries - 1
                THEN cn' = [cn EXCEPT !.attempt = @ + 1]
                ELSE cn' = [cn EXCEPT !.result = "error", !.pc = "finally_cursor"]
         ELSE cn' = [cn EXCEPT !.conn = "open", !.opened = TRUE, !.pc = "cursor"]
    /\ UNCHANGED othersConn

\* cursor = conn.cursor(dictionary=True)
conn_cursor ==
    /\ cn.pc = "cursor"
    /\ IF cn.fault = "cursor_error"
         THEN cn' = [cn EXCEPT !.result = "mysql_error", !.pc = "finally_cursor"]
         ELSE cn' = [cn EXCEPT !.cursor = "open", !.pc = "body"]
    /\ UNCHANGED othersConn

\* The tool branches with the two except clauses: every path leads to the
\* finally block.
conn_run_tool ==
    /\ cn.pc = "body"
    /\ LET result ==
             IF cn.tool = "unknown" THEN "unknown_tool"
             ELSE IF cn.tool = "update" /\ ~cn.args_ok
               THEN IF cn.side = "client" THEN "required" ELSE "error"
             ELSE IF cn.fault \in {"execute_error", "connection_lost"} THEN "mysql_error"
             ELSE IF cn.fault = "other_error" THEN "error"
             ELSE IF cn.tool = "update"
               THEN IF cn.fault = "commit_error" THEN "mysql_error" ELSE "success"
             ELSE "rows"
           executes == cn.tool # "unknown" /\ (cn.tool = "update" => cn.args_ok)
       IN  cn' = [cn EXCEPT !.result = result,
                            !.conn = IF executes /\ cn.fault = "connection_lost"
                                       THEN "lost" ELSE @,
                            !.pc = "finally_cursor"]
    /\ UNCHANGED othersConn

\* finally: the cursor ...
conn_finally_cursor ==
    /\ cn.pc = "finally_cursor"
    /\ cn' = [cn EXCEPT !.cursor = FinallyCursor(@), !.pc = "finally_conn"]
    /\ UNCHANGED othersConn

\* ... then the connection, and the call returns.
conn_finally_conn ==
    /\ cn.pc = "finally_conn"
    /\ cn' = [cn EXCEPT !.conn = FinallyConn(@), !.pc = "returned"]
    /\ UNCHANGED othersConn

(***************************************************************************)
(* Specifications. A subsystem that a specification does not run stays in  *)
(* its idle state.                                                         *)
(***************************************************************************)
NextVR ==
    \/ add_document
    \/ add_documents_bulk
    \/ search_similar
    \/ get_document
    \/ update_document
    \/ delete_document
    \/ list_documents

NextRetry ==
    \/ api_attempt
    \/ raise_after_retries

NextLegacy ==
    \/ _legacy_send_message
    \/ legacy_send_message_reply
    \/ create_conversation
    \/ clear_conversation
    \/ delete_conversation

NextCtx == combine_context

NextDB ==
    \/ create_session
    \/ delete_session
    \/ create_message
    \/ update_session
    \/ update_message
    \/ delete_message
    \/ delete_session_messages
    \/ process_chat_message

NextTool ==
    \/ client_call_tool
    \/ server_call_tool

NextOrch ==
    \/ route_query
    \/ execute_tool_call
    \/ second_model_call

NextOpt == optimize_context

NextSvc ==
    \/ initialize_rag_service
    \/ get_rag_service
    \/ initialize_context_service
    \/ get_context_service

NextHealth == health_check

NextChunk ==
    \/ chunk_text
    \/ chunk_text_loop

NextRace ==
    \/ race_store_user
    \/ race_refresh_user
    \/ race_count_user_messages
    \/ race_rename_session
    \/ race_reply

NextMeta ==
    \/ meta_update_document
    \/ meta_update_document_metadata
    \/ meta_get_document

NextThread ==
    \/ thread_store_message
    \/ create_threaded_message

NextPrompt ==
    \/ prompt_store_user
    \/ prompt_load_history
    \/ prompt_generate_response

NextCtxPrompt ==
    \/ generate_response_with_context

NextConn ==
    \/ conn_get_db_connection
    \/ conn_cursor
    \/ conn_run_tool
    \/ conn_finally_cursor
    \/ conn_finally_conn

\* Initial states: the subsystem under study as constructed (or with its
\* inputs drawn), the others idle, the tables empty.
InitVR ==
    /\ repo \in InitialRepos
    /\ vlast = NoCall
    /\ fb_ops = {}
    /\ rt = IdleRetry
    /\ conversations = <<>>
    /\ lg = NoSend
    /\ cx = IdleCtx
    /\ sessions = <<>>
    /\ messages = <<>>
    /\ db_seq = NoIds
    /\ rc = NoRequest
    /\ tl = IdleTool
    /\ orch = IdleOrch
    /\ opt = IdleOpt
    /\ sv = IdleSvc
    /\ hc = IdleHealth
    /\ ck = IdleChunk
    /\ race = IdleRace
    /\ md = IdleMeta
    /\ th = IdleThread
    /\ bp = IdlePrompt
    /\ cp = IdleCtxPrompt
    /\ cn = IdleConn

InitRetry ==
    /\ repo = IdleRepo
    /\ vlast = NoCall
    /\ fb_ops = {}
    /\ rt \in InitialRetries
    /\ conversations = <<>>
    /\ lg = NoSend
    /\ cx = IdleCtx
    /\ sessions = <<>>
    /\ messages = <<>>
    /\ db_seq = NoIds
    /\ rc = NoRequest
    /\ tl = IdleTool
    /\ orch = IdleOrch
    /\ opt = IdleOpt
    /\ sv = IdleSvc
    /\ hc = IdleHealth
    /\ ck = IdleChunk
    /\ race = IdleRace
    /\ md = IdleMeta
    /\ th = IdleThread
    /\ bp = IdlePrompt
    /\ cp = IdleCtxPrompt
    /\ cn = IdleConn

InitLegacy ==
    /\ repo = IdleRepo
    /\ vlast = NoCall
    /\ fb_ops = {}
    /\ rt = IdleRetry
    /\ conversations \in InitialConversations
    /\ lg = NoSend
    /\ cx = IdleCtx
    /\ sessions = <<>>
    /\ messages = <<>>
    /\ db_seq = NoIds
    /\ rc = NoRequest
    /\ tl = IdleTool
    /\ orch = IdleOrch
    /\ opt = IdleOpt
    /\ sv = IdleSvc
    /\ hc = IdleHealth
    /\ ck = IdleChunk
    /\ race = IdleRace
    /\ md = IdleMeta
    /\ th = IdleThread
    /\ bp = IdlePrompt
    /\ cp = IdleCtxPrompt
    /\ cn = IdleConn

InitCtx ==
    /\ repo = IdleRepo
    /\ vlast = NoCall
    /\ fb_ops = {}
    /\ rt = IdleRetry
    /\ conversations = <<>>
    /\ lg = NoSend
    /\ \E n \in 0..MaxHistory, k \in 0..MaxRetrieved, t \in Targets :
          \E hm \in [1..n -> MessageChoices], dm \in [1..k -> DocumentChoices] :
             cx = [pc |-> "input", history |-> History(hm), docs |-> RetrievedList(dm),
                   max_tokens |-> t, result |-> NoContext]
    /\ sessions = <<>>
    /\ messages = <<>>
    /\ db_seq = NoIds
    /\ rc = NoRequest
    /\ tl = IdleTool
    /\ orch = IdleOrch
    /\ opt = IdleOpt
    /\ sv = IdleSvc
    /\ hc = IdleHealth
    /\ ck = IdleChunk
    /\ race = IdleRace
    /\ md = IdleMeta
    /\ th = IdleThread
    /\ bp = IdlePrompt
    /\ cp = IdleCtxPrompt
    /\ cn = IdleConn

InitDB ==
    /\ repo = IdleRepo
    /\ vlast = NoCall
    /\ fb_ops = {}
    /\ rt = IdleRetry
    /\ conversations = <<>>
    /\ lg = NoSend
    /\ cx = IdleCtx
    /\ sessions = <<>>
    /\ messages = <<>>
    /\ db_seq = NoIds
    /\ rc = NoRequest
    /\ tl = IdleTool
    /\ orch = IdleOrch
    /\ opt = IdleOpt
    /\ sv = IdleSvc
    /\ hc = IdleHealth
    /\ ck = IdleChunk
    /\ race = IdleRace
    /\ md = IdleMeta
    /\ th = IdleThread
    /\ bp = IdlePrompt
    /\ cp = IdleCtxPrompt
    /\ cn = IdleConn

InitTool ==
    /\ repo = IdleRepo
    /\ vlast = NoCall
    /\ fb_ops = {}
    /\ rt = IdleRetry
    /\ conversations = <<>>
    /\ lg = NoSend
    /\ cx = IdleCtx
    /\ sessions = <<>>
    /\ messages = <<>>
    /\ db_seq = NoIds
    /\ rc = NoRequest
    /\ \E tool \in ToolNames, db \in {"ok", "connect_fails", "execute_fails"} :
          \E K \in SUBSET ToolArgumentNames(tool) :
             \E arguments \in [K -> ArgumentValues] :
                tl = [pc |-> {"client", "server"}, tool |-> tool, arguments |-> arguments,
                      db |-> db, client |-> NoResult, server |-> NoResult]
    /\ orch = IdleOrch
    /\ opt = IdleOpt
    /\ sv = IdleSvc
    /\ hc = IdleHealth
    /\ ck = IdleChunk
    /\ race = IdleRace
    /\ md = IdleMeta
    /\ th = IdleThread
    /\ bp = IdlePrompt
    /\ cp = IdleCtxPrompt
    /\ cn = IdleConn

InitOrch ==
    /\ repo = IdleRepo
    /\ vlast = NoCall
    /\ fb_ops = {}
    /\ rt = IdleRetry
    /\ conversations = <<>>
    /\ lg = NoSend
    /\ cx = IdleCtx
    /\ sessions = <<>>
    /\ messages = <<>>
    /\ db_seq = NoIds
    /\ rc = NoRequest
    /\ tl = IdleTool
    /\ \E message \in RoutedMessages, history \in HistoryLengths :
          orch = [IdleOrch EXCEPT !.pc = "start", !.message = message, !.history = history]
    /\ opt = IdleOpt
    /\ sv = IdleSvc
    /\ hc = IdleHealth
    /\ ck = IdleChunk
    /\ race = IdleRace
    /\ md = IdleMeta
    /\ th = IdleThread
    /\ bp = IdlePrompt
    /\ cp = IdleCtxPrompt
    /\ cn = IdleConn

InitOpt ==
    /\ repo = IdleRepo
    /\ vlast = NoCall
    /\ fb_ops = {}
    /\ rt = IdleRetry
    /\ conversations = <<>>
    /\ lg = NoSend
    /\ cx = IdleCtx
    /\ sessions = <<>>
    /\ messages = <<>>
    /\ db_seq = NoIds
    /\ rc = NoRequest
    /\ tl = IdleTool
    /\ orch = IdleOrch
    /\ \E n \in 0..MaxOptMessages, k \in 0..MaxOptDocs, t \in OptTargets,
          strategies \in StrategyLists, counted \in BOOLEAN :
          \E hm \in [1..n -> MessageChoices], dm \in [1..k -> OptDocumentChoices] :
             opt = [pc |-> "input",
                    context |-> OptContext(History(hm), OptDocs(dm),
                                   IF counted
                                     THEN CalculateMessageTokens(History(hm))
                                          + CalculateDocumentTokens(OptDocs(dm))
                                     ELSE 0),
                    target |-> t, strategies |-> strategies, result |-> NoOptimization]
    /\ sv = IdleSvc
    /\ hc = IdleHealth
    /\ ck = IdleChunk
    /\ race = IdleRace
    /\ md = IdleMeta
    /\ th = IdleThread
    /\ bp = IdlePrompt
    /\ cp = IdleCtxPrompt
    /\ cn = IdleConn

InitSvc ==
    /\ repo = IdleRepo
    /\ vlast = NoCall
    /\ fb_ops = {}
    /\ rt = IdleRetry
    /\ conversations = <<>>
    /\ lg = NoSend
    /\ cx = IdleCtx
    /\ sessions = <<>>
    /\ messages = <<>>
    /\ db_seq = NoIds
    /\ rc = NoRequest
    /\ tl = IdleTool
    /\ orch = IdleOrch
    /\ opt = IdleOpt
    /\ sv = IdleSvc
    /\ hc = IdleHealth
    /\ ck = IdleChunk
    /\ race = IdleRace
    /\ md = IdleMeta
    /\ th = IdleThread
    /\ bp = IdlePrompt
    /\ cp = IdleCtxPrompt
    /\ cn = IdleConn

InitHealth ==
    /\ repo = IdleRepo
    /\ vlast = NoCall
    /\ fb_ops = {}
    /\ rt = IdleRetry
    /\ conversations = <<>>
    /\ lg = NoSend
    /\ cx = IdleCtx
    /\ sessions = <<>>
    /\ messages = <<>>
    /\ db_seq = NoIds
    /\ rc = NoRequest
    /\ tl = IdleTool
    /\ orch = IdleOrch
    /\ opt = IdleOpt
    /\ sv = IdleSvc
    /\ hc = IdleHealth
    /\ ck = IdleChunk
    /\ race = IdleRace
    /\ md = IdleMeta
    /\ th = IdleThread
    /\ bp = IdlePrompt
    /\ cp = IdleCtxPrompt
    /\ cn = IdleConn

InitChunk ==
    /\ repo = IdleRepo
    /\ vlast = NoCall
    /\ fb_ops = {}
    /\ rt = IdleRetry
    /\ conversations = <<>>
    /\ lg = NoSend
    /\ cx = IdleCtx
    /\ sessions = <<>>
    /\ messages = <<>>
    /\ db_seq = NoIds
    /\ rc = NoRequest
    /\ tl = IdleTool
    /\ orch = IdleOrch
    /\ opt = IdleOpt
    /\ sv = IdleSvc
    /\ hc = IdleHealth
    /\ \E text \in Texts, chunk_size \in 1..MaxChunkSize :
          \E overlap \in 0..(chunk_size - 1) :
             ck = [IdleChunk EXCEPT !.pc = "input", !.text = text,
                                    !.chunk_size = chunk_size, !.overlap = overlap]
    /\ race = IdleRace
    /\ md = IdleMeta
    /\ th = IdleThread
    /\ bp = IdlePrompt
    /\ cp = IdleCtxPrompt
    /\ cn = IdleConn

InitRace ==
    /\ repo = IdleRepo
    /\ vlast = NoCall
    /\ fb_ops = {}
    /\ rt = IdleRetry
    /\ conversations = <<>>
    /\ lg = NoSend
    /\ cx = IdleCtx
    /\ sessions = <<>>
    /\ messages = <<>>
    /\ db_seq = NoIds
    /\ rc = NoRequest
    /\ tl = IdleTool
    /\ orch = IdleOrch
    /\ opt = IdleOpt
    /\ sv = IdleSvc
    /\ hc = IdleHealth
    /\ ck = IdleChunk
    /\ \E isolation \in {"repeatable_read", "read_committed"}, prior \in 0..1,
          n \in 1..MaxChatCalls :
          race = [isolation |-> isolation, prior |-> prior, committed |-> prior, name |-> 0,
                  pc |-> [c \in 1..n |-> "store"],
                  position |-> [c \in 1..n |-> 0], snapshot |-> [c \in 1..n |-> 0],
                  seen |-> [c \in 1..n |-> 0], renamed |-> [c \in 1..n |-> FALSE],
                  stores_first |-> TRUE]
    /\ md = IdleMeta
    /\ th = IdleThread
    /\ bp = IdlePrompt
    /\ cp = IdleCtxPrompt
    /\ cn = IdleConn

InitMeta ==
    /\ repo = IdleRepo
    /\ vlast = NoCall
    /\ fb_ops = {}
    /\ rt = IdleRetry
    /\ conversations = <<>>
    /\ lg = NoSend
    /\ cx = IdleCtx
    /\ sessions = <<>>
    /\ messages = <<>>
    /\ db_seq = NoIds
    /\ rc = NoRequest
    /\ tl = IdleTool
    /\ orch = IdleOrch
    /\ opt = IdleOpt
    /\ sv = IdleSvc
    /\ hc = IdleHealth
    /\ ck = IdleChunk
    /\ race = IdleRace
    /\ \E backend \in {"chroma", "mysql"}, metadata \in Dicts :
          md = [backend |-> backend, present |-> TRUE, content |-> 1,
                stored |-> StoredOnAdd(backend, metadata), supplied |-> metadata,
                pending |-> NoPending, last |-> MetaObs("init", None, NoDict, 0),
                calls |-> 0]
    /\ th = IdleThread
    /\ bp = IdlePrompt
    /\ cp = IdleCtxPrompt
    /\ cn = IdleConn

InitThread ==
    /\ repo = IdleRepo
    /\ vlast = NoCall
    /\ fb_ops = {}
    /\ rt = IdleRetry
    /\ conversations = <<>>
    /\ lg = NoSend
    /\ cx = IdleCtx
    /\ sessions = <<>>
    /\ messages = <<>>
    /\ db_seq = NoIds
    /\ rc = NoRequest
    /\ tl = IdleTool
    /\ orch = IdleOrch
    /\ opt = IdleOpt
    /\ sv = IdleSvc
    /\ hc = IdleHealth
    /\ ck = IdleChunk
    /\ race = IdleRace
    /\ md = IdleMeta
    /\ th = IdleThread
    /\ bp = IdlePrompt
    /\ cp = IdleCtxPrompt
    /\ cn = IdleConn

InitPrompt ==
    /\ repo = IdleRepo
    /\ vlast = NoCall
    /\ fb_ops = {}
    /\ rt = IdleRetry
    /\ conversations = <<>>
    /\ lg = NoSend
    /\ cx = IdleCtx
    /\ sessions = <<>>
    /\ messages = <<>>
    /\ db_seq = NoIds
    /\ rc = NoRequest
    /\ tl = IdleTool
    /\ orch = IdleOrch
    /\ opt = IdleOpt
    /\ sv = IdleSvc
    /\ hc = IdleHealth
    /\ ck = IdleChunk
    /\ race = IdleRace
    /\ md = IdleMeta
    /\ th = IdleThread
    /\ \E n \in 0..MaxPriorMessages :
          bp = [stored |-> PriorRows(n), pc |-> "idle", current |-> 0,
                history_ok |-> FALSE, chat_history |-> <<>>, prompt |-> <<>>,
                turns |-> 0]
    /\ cp = IdleCtxPrompt
    /\ cn = IdleConn

InitCtxPrompt ==
    /\ repo = IdleRepo
    /\ vlast = NoCall
    /\ fb_ops = {}
    /\ rt = IdleRetry
    /\ conversations = <<>>
    /\ lg = NoSend
    /\ cx = IdleCtx
    /\ sessions = <<>>
    /\ messages = <<>>
    /\ db_seq = NoIds
    /\ rc = NoRequest
    /\ tl = IdleTool
    /\ orch = IdleOrch
    /\ opt = IdleOpt
    /\ sv = IdleSvc
    /\ hc = IdleHealth
    /\ ck = IdleChunk
    /\ race = IdleRace
    /\ md = IdleMeta
    /\ th = IdleThread
    /\ bp = IdlePrompt
    /\ \E n \in 0..MaxCtxMessages, k \in 0..MaxCtxDocs :
          \E ms \in [1..n -> CtxMessageChoices], ds \in [1..k -> CtxDocumentWords] :
             cp = [messages |-> ms, documents |-> ds, pc |-> "input",
                   built |-> <<>>, prompt |-> <<>>]
    /\ cn = IdleConn

InitConn ==
    /\ repo = IdleRepo
    /\ vlast = NoCall
    /\ fb_ops = {}
    /\ rt = IdleRetry
    /\ conversations = <<>>
    /\ lg = NoSend
    /\ cx = IdleCtx
    /\ sessions = <<>>
    /\ messages = <<>>
    /\ db_seq = NoIds
    /\ rc = NoRequest
    /\ tl = IdleTool
    /\ orch = IdleOrch
    /\ opt = IdleOpt
    /\ sv = IdleSvc
    /\ hc = IdleHealth
    /\ ck = IdleChunk
    /\ race = IdleRace
    /\ md = IdleMeta
    /\ th = IdleThread
    /\ bp = IdlePrompt
    /\ cp = IdleCtxPrompt
    /\ \E side \in {"client", "server"}, tool \in {"query", "update", "unknown"},
          args_ok \in BOOLEAN, fails \in 0..max_retries, fault \in ConnFaults :
          cn = [IdleConn EXCEPT !.pc = "connect", !.side = side, !.tool = tool,
                                !.args_ok = args_ok, !.fails = fails, !.fault = fault]

SpecVR     == InitVR /\ [][NextVR]_vars
SpecRetry  == InitRetry /\ [][NextRetry]_vars
SpecLegacy == InitLegacy /\ [][NextLegacy]_vars
SpecCtx    == InitCtx /\ [][NextCtx]_vars
SpecDB     == InitDB /\ [][NextDB]_vars
SpecTool   == InitTool /\ [][NextTool]_vars
SpecOrch   == InitOrch /\ [][NextOrch]_vars
SpecOpt    == InitOpt /\ [][NextOpt]_vars
SpecSvc    == InitSvc /\ [][NextSvc]_vars
SpecHealth == InitHealth /\ [][NextHealth]_vars
SpecChunk  == InitChunk /\ [][NextChunk]_vars
SpecRace   == InitRace /\ [][NextRace]_vars
SpecMeta == InitMeta /\ [][NextMeta]_vars
SpecThread == InitThread /\ [][NextThread]_vars
SpecPrompt == InitPrompt /\ [][NextPrompt]_vars
SpecCtxPrompt == InitCtxPrompt /\ [][NextCtxPrompt]_vars
SpecConn == InitConn /\ [][NextConn]_vars

(***************************************************************************)
(* Properties.                                                             *)
(***************************************************************************)

\* C1, as claimed: once any repository operation has fallen back from the
\* vector store to the relational backend because the vector store failed,
\* no later operation calls the vector store.
C1_NoStoreCallAfterAnyFallback ==
    [][fb_ops # {} => ~vlast'.vs_called]_vars

\* C1, amended: once add_document or search_similar has fallen back because
\* the vector store failed, no later operation calls the vector store.
C1_NoStoreCallAfterAddOrSearchFallback ==
    [][(fb_ops \cap {"add", "search"}) # {} => ~vlast'.vs_called]_vars

C1_Witness ==
    /\ (fb_ops \cap {"add", "search"}) # {}
    /\ vlast.op \in {"get", "update", "delete", "list"}
    /\ ~vlast.vs_called
    /\ repo.chroma # {}

\* C2: a delete_document call during which both stores work removes the
\* document from whichever backend add_document stored it in, whatever ran
\* before.
C2_DeleteRemovesFromBothBackends ==
    [][(vlast'.op = "delete" /\ vlast'.vs_ok /\ vlast'.db_ok)
          => vlast'.id \notin (repo'.chroma \cup repo'.mysql)]_vars

\* C3: when every provider call of a retry loop raised a rate-limit error,
\* the provider has been called at most max_retries times, the call does not
\* return, and once it has failed it was called exactly max_retries times and
\* the OpenAIAPIError names max_retries attempts.
AllRateLimited ==
    /\ rt.outcomes # <<>>
    /\ \A i \in DOMAIN rt.outcomes : rt.outcomes[i] = "RateLimitError"

C3_RateLimitExhaustsRetries ==
    AllRateLimited =>
       /\ Len(rt.outcomes) <= rt.max_retries
       /\ rt.pc # "returned"
       /\ rt.pc = "raised" =>
             /\ Len(rt.outcomes) = rt.max_retries
             /\ rt.error.type = "OpenAIAPIError"
             /\ rt.error.attempts_named = rt.max_retries
             /\ rt.error.cause = "RateLimitError"

C3_Witness ==
    /\ rt.pc = "raised"
    /\ rt.max_retries = max_retries_default
    /\ rt.outcomes = <<"RateLimitError", "RateLimitError", "RateLimitError">>

\* C4: a provider call that raised an authentication error or another
\* non-retryable API error is the last provider call of the loop, and the
\* loop has ended by raising OpenAIAPIError.
C4_NonRetryableEndsLoop ==
    \A i \in DOMAIN rt.outcomes :
       rt.outcomes[i] \in {"AuthenticationError", "APIError"} =>
          /\ i = Len(rt.outcomes)
          /\ rt.pc = "raised"
          /\ rt.error.type = "OpenAIAPIError"
          /\ rt.error.cause = rt.outcomes[i]

C4_Witness ==
    /\ rt.pc = "raised"
    /\ Len(rt.outcomes) = 2
    /\ rt.max_retries = max_retries_default
    /\ rt.outcomes[1] = "RateLimitError"
    /\ rt.outcomes[2] = "AuthenticationError"

\* C5: _legacy_send_message never raises; a failed call returns a response
\* with success = false and an error text, carrying the id of the
\* conversation created or reused for the call.
C5_LegacySendNeverRaises ==
    lg.op = "send" =>
       /\ lg.outcome = "returned"
       /\ lg.failed =>
             /\ lg.success = FALSE
             /\ lg.error # None
             /\ lg.conversation_id = lg.conv

\* C6: when any step of process_chat_message failed, the call returns (it
\* does not raise) the fixed apology, stored as an assistant message of the
\* session.
C6_ChatFailureReturnsApology ==
    (rc.op = "chat" /\ rc.failed # {}) =>
       /\ rc.outcome = "returned"
       /\ rc.content = Apology
       /\ \E i \in DOMAIN messages :
             /\ messages[i].id = rc.msg_id
             /\ messages[i].session_id = rc.sid
             /\ messages[i].role = "assistant"
             /\ messages[i].content = Apology

\* Sum and maximum of a sequence of numbers.
RECURSIVE SumSeq(_)
SumSeq(s) == IF s = <<>> THEN 0 ELSE Head(s) + SumSeq(Tail(s))

Max2(a, b) == IF a >= b THEN a ELSE b

RECURSIVE MaxSeq(_)
MaxSeq(s) == IF s = <<>> THEN 0 ELSE Max2(Head(s), MaxSeq(Tail(s)))

\* Token costs of the items of the returned context.
AcceptedCosts ==
    [i \in DOMAIN cx.result.messages |-> MessageTokens(cx.result.messages[i])]
       \o [i \in DOMAIN cx.result.docs |-> DocumentTokens(cx.result.docs[i])]

InputTokens == CalculateMessageTokens(cx.history) + CalculateDocumentTokens(cx.docs)

\* C7: for inputs whose estimated tokens exceed the target, the returned
\* context's estimated tokens exceed the target by at most the cost of one
\* accepted item.
C7_OvershootWithinOneItem ==
    (cx.pc = "done" /\ InputTokens > cx.max_tokens) =>
       /\ cx.result.total_tokens = SumSeq(AcceptedCosts)
       /\ cx.result.total_tokens <= cx.max_tokens + MaxSeq(AcceptedCosts)

C7_Witness ==
    /\ cx.pc = "done"
    /\ InputTokens > cx.max_tokens
    /\ Len(cx.result.messages) \in 1..(Len(cx.history) - 1)
    /\ \E i \in DOMAIN cx.result.docs : cx.result.docs[i].truncated

KeptMessageIds == {cx.result.messages[i].id : i \in DOMAIN cx.result.messages}
KeptDocIds == {cx.result.docs[i].id : i \in DOMAIN cx.result.docs}
WholeDocIds == {cx.result.docs[i].id : i \in {j \in DOMAIN cx.result.docs :
                                                 ~cx.result.docs[j].truncated}}
MessageBudgetLeft ==
    MessageTokenBudget(cx.max_tokens) - CalculateMessageTokens(cx.result.messages)
DocBudgetLeft ==
    DocTokenBudget(cx.max_tokens) - CalculateDocumentTokens(cx.result.docs)

\* C8, as claimed: a trimmed context leaves out no message and no document
\* that fits in the budget still remaining for its kind.
C8_NothingFittingLeftOut ==
    (cx.pc = "done" /\ cx.result.managed) =>
       /\ \A i \in DOMAIN cx.history :
             cx.history[i].id \notin KeptMessageIds
                => MessageTokens(cx.history[i]) > MessageBudgetLeft
       /\ \A i \in DOMAIN cx.docs :
             cx.docs[i].id \notin KeptDocIds
                => DocumentTokens(cx.docs[i]) > DocBudgetLeft

\* Document i ranks before document j: higher score, or equal score and
\* earlier in the input.
RanksBefore(i, j) ==
    \/ cx.docs[i].score > cx.docs[j].score
    \/ cx.docs[i].score = cx.docs[j].score /\ i < j

NotWhole == {i \in DOMAIN cx.docs : cx.docs[i].id \notin WholeDocIds}

WholeDocTokens ==
    CalculateDocumentTokens(SelectSeq(cx.result.docs, LAMBDA d : ~d.truncated))

\* C8, amended: trimming stops, for each kind, at the first item that does
\* not fit. The kept messages are the most recent ones and the most recent
\* message left out does not fit the remaining message budget; the documents
\* kept whole are the top of the ranking and the best-ranked document not
\* kept whole does not fit the budget they leave (it is kept truncated
\* exactly when more than 50 tokens remain, and it is the only one).
C8_StopsAtFirstMisfit ==
    (cx.pc = "done" /\ cx.result.managed) =>
       LET n == Len(cx.history)
           k == Len(cx.result.messages)
           left == DocTokenBudget(cx.max_tokens) - WholeDocTokens
       IN  /\ k <= n
           /\ cx.result.messages = SubSeq(cx.history, n - k + 1, n)
           /\ k < n => MessageTokens(cx.history[n - k]) > MessageBudgetLeft
           /\ \A i \in DOMAIN cx.docs \ NotWhole : \A j \in NotWhole : RanksBefore(i, j)
           /\ \A j \in NotWhole :
                 (\A h \in NotWhole \ {j} : RanksBefore(j, h)) =>
                    /\ DocumentTokens(cx.docs[j]) > left
                    /\ (cx.docs[j].id \in KeptDocIds) <=> (left > MinTruncationBudget)
           /\ Cardinality(KeptDocIds \ WholeDocIds) <= 1
           /\ \A j \in NotWhole :
                 (\E h \in NotWhole : RanksBefore(h, j)) => cx.docs[j].id \notin KeptDocIds

C8_Witness ==
    /\ cx.pc = "done"
    /\ cx.result.managed
    /\ \E i \in DOMAIN cx.history :
          /\ cx.history[i].id \notin KeptMessageIds
          /\ MessageTokens(cx.history[i]) <= MessageBudgetLeft
    /\ \E i \in DOMAIN cx.docs :
          /\ cx.docs[i].id \notin KeptDocIds
          /\ DocumentTokens(cx.docs[i]) <= DocBudgetLeft

\* C9: add_documents_bulk returns total_requested = N = total_created +
\* total_failed, with one failure entry per failed document, each carrying
\* that document's index.
C9_BulkCountsAddUp ==
    vlast.op = "bulk" =>
       /\ vlast.total_created + vlast.total_failed = vlast.total_requested
       /\ \A i, j \in DOMAIN vlast.failed :
             vlast.failed[i].index = vlast.failed[j].index => i = j
       /\ \A i \in DOMAIN vlast.failed :
             vlast.failed[i].index \in 0..(vlast.total_requested - 1)

\* C10: every stored message belongs to an existing session; creating a
\* message for a missing session is rejected and stores nothing; a deleted
\* session leaves no message behind.
C10_MessagesBelongToSessions ==
    /\ \A i \in DOMAIN messages : messages[i].session_id \in DOMAIN sessions
    /\ (rc.op = "create_message" /\ rc.outcome = "created") => rc.pre_exists
    /\ (rc.op = "delete_session" /\ rc.outcome = "deleted") =>
          /\ rc.sid \notin DOMAIN sessions
          /\ \A i \in DOMAIN messages : messages[i].session_id # rc.sid

C10_Witness ==
    /\ rc.op = "delete_session"
    /\ rc.outcome = "deleted"
    /\ rc.cascaded > 0
    /\ messages # <<>>

\* The user messages a session holds at the moment.
StoredUserMessages(sid) ==
    Cardinality({i \in DOMAIN messages :
                    messages[i].session_id = sid /\ messages[i].role = "user"})

\* A chat call that got its user message into the table.
ChatStoredUserMessage(obs) ==
    obs.op = "chat" /\ obs.pre_exists /\ "store_user" \notin obs.failed

\* C11 as stated: a chat call renames the session exactly when its user
\* message is the first user message of the session, i.e. when the session
\* held no user message before the call.
C11_RenamedIffFirstUserMessage ==
    [][ChatStoredUserMessage(rc') =>
          (rc'.renamed <=> StoredUserMessages(rc'.sid) = 0)]_vars

\* C11: a chat call renames the session exactly when its user message is
\* the only user message the session holds once it is stored and the
\* database calls of the rename succeed; a chat call whose user message
\* joins an earlier user message of the session leaves the name alone.
C11_RenamedIffOnlyUserMessageAndRenameWorks ==
    [][ChatStoredUserMessage(rc') =>
          /\ rc'.renamed <=> (StoredUserMessages(rc'.sid) = 0 /\ "rename" \notin rc'.failed)
          /\ rc'.renamed => sessions'[rc'.sid] = "generated"
          /\ ~rc'.renamed => sessions'[rc'.sid] = sessions[rc'.sid]]_vars

C11_Witness ==
    /\ ChatStoredUserMessage(rc)
    /\ ~rc.renamed
    /\ rc.failed = {}
    /\ StoredUserMessages(rc.sid) = 2
    /\ sessions[rc.sid] = "given"

\* C12: for every tool name and argument set the in-process client and the
\* standalone server issue the same statements and return the same JSON
\* document.
C12_ClientAndServerAgree ==
    tl.pc = {} =>
       /\ tl.client.statements = tl.server.statements
       /\ tl.client.committed = tl.server.committed
       /\ tl.client.json = tl.server.json

\* The tool-result turns of a list of turns.
ToolTurns(turns) == SelectSeq(turns, LAMBDA t : t.role = "tool")

\* C13: in the insurance path the requested tool calls run once each in the
\* requested order, each adding one tool-result turn keyed by its tool-call
\* id, all before the one second completion call, which offers no tools;
\* with no tool call requested no tool runs, there is no second call and the
\* first response's content is the answer.
C13_ToolCallsRunOnceInOrderBeforeSecondCall ==
    orch.handler = "insurance" =>
       /\ Len(orch.executed) <= Len(orch.requested)
       /\ \A i \in DOMAIN orch.executed :
             /\ orch.executed[i].id = orch.requested[i].id
             /\ orch.executed[i].name = orch.requested[i].name
       /\ Len(ToolTurns(orch.messages)) = Len(orch.executed)
       /\ \A i \in DOMAIN orch.executed :
             ToolTurns(orch.messages)[i].tool_call_id = orch.executed[i].id
       /\ Len(orch.model_calls) <= 2
       /\ Len(orch.model_calls) = 2 =>
             /\ orch.requested # <<>>
             /\ Len(orch.executed) = Len(orch.requested)
             /\ ~orch.model_calls[2].tools
             /\ ToolTurns(orch.model_calls[2].turns) = ToolTurns(orch.messages)
       /\ orch.pc = "returned" =>
             IF orch.requested = <<>>
               THEN /\ orch.executed = <<>>
                    /\ Len(orch.model_calls) = 1
                    /\ orch.result.content = "first"
               ELSE /\ Len(orch.model_calls) = 2
                    /\ orch.result.content = "second"

C13_Witness ==
    /\ orch.pc = "returned"
    /\ Len(orch.requested) = 2
    /\ orch.requested[1].id > orch.requested[2].id
    /\ Len(orch.executed) = 2
    /\ Len(orch.model_calls) = 2

\* Whether some keyword occurs in the lower-cased text at some position.
KeywordAt(text, n, i) ==
    /\ i + Len(INSURANCE_KEYWORDS[n]) - 1 <= Len(text)
    /\ \A j \in 1..Len(INSURANCE_KEYWORDS[n]) :
          LET c == text[i + j - 1]
          IN  (IF c \in DOMAIN LowerCase THEN LowerCase[c] ELSE c) = INSURANCE_KEYWORDS[n][j]
HasKeyword(text) ==
    \E n \in DOMAIN INSURANCE_KEYWORDS, i \in DOMAIN text : KeywordAt(text, n, i)

\* C17: route_query uses the insurance handler exactly when the lower-cased
\* message contains one of the insurance keywords as a substring, the generic
\* chat handler otherwise, and the returned type tag is "insurance" or
\* "normal_chat" accordingly.
C17_RoutedByKeywordSubstring ==
    /\ orch.handler # None =>
          (orch.handler = "insurance" <=> HasKeyword(orch.message))
    /\ orch.pc = "returned" =>
          /\ orch.result.type = orch.handler
          /\ orch.result.type = (IF HasKeyword(orch.message) THEN "insurance"
                                 ELSE "normal_chat")

C17_Witness ==
    /\ orch.pc = "returned"
    /\ orch.result.type = "insurance"
    /\ ~is_insurance_query_case_sensitive(orch.message)

\* C14: optimize_context on a context whose token count is at or below the
\* target returns the same messages and documents, compression_ratio 1.0 and
\* no strategy applied.
C14_WithinTargetReturnedUnchanged ==
    (opt.pc = "done" /\ opt.context.total_tokens <= opt.target) =>
       /\ opt.result.optimized_context.messages = opt.context.messages
       /\ opt.result.optimized_context.retrieved_context = opt.context.retrieved_context
       /\ opt.result.compression_ratio.num = opt.result.compression_ratio.den
       /\ opt.result.strategies_applied = <<>>

C14_Witness ==
    /\ opt.pc = "done"
    /\ opt.context.total_tokens = opt.target
    /\ opt.context.messages # <<>>
    /\ opt.context.retrieved_context # <<>>
    /\ opt.result.optimized_context = opt.context

\* C15: for the RAG service and the context service, get before any
\* successful initialize raises RuntimeError, and get after a successful
\* initialize returns the instance that initialize created.
C15_GetReturnsInitializedInstance ==
    sv.last.op = "get" =>
       IF sv.made[sv.last.service] = 0
         THEN sv.last.outcome = "RuntimeError"
         ELSE /\ sv.last.outcome = "returned"
              /\ sv.last.returned = sv.made[sv.last.service]

C15_Witness ==
    /\ sv.last.op = "get"
    /\ sv.last.outcome = "returned"
    /\ sv.last.returned = 2
    /\ sv.calls = 4

\* C16: GET /api/health answers 200 only when the chat service's health
\* check reports status healthy; a degraded or unhealthy report, or an
\* exception thrown by the health check itself, gives 503.
C16_Http200OnlyWhenHealthy ==
    \A i \in DOMAIN hc :
       /\ hc[i].status_code = 200 => hc[i].report.status = "healthy"
       /\ hc[i].report.status \in {"degraded", "unhealthy"} => hc[i].status_code = 503
       /\ hc[i].outcome = "check_raises" => hc[i].status_code = 503
       /\ hc[i].report.status = "healthy" => hc[i].status_code = 200

C16_Witness ==
    /\ Len(hc) = 3
    /\ hc[1].status_code = 200
    /\ hc[2].report.status = "degraded" /\ hc[2].status_code = 503
    /\ hc[3].outcome = "check_raises" /\ hc[3].status_code = 503

\* C18: with chunk_size > overlap >= 0, every iteration of the loop of
\* chunk_text moves the start position strictly forward (so the loop ends).
C18_StartMovesForward ==
    [][(ck.pc = "loop" /\ ck'.pc = "loop") => ck'.start > ck.start]_vars

\* C19: a document that add_document stored and that was not deleted is
\* found by a get_document call during which both stores work, whatever
\* failures and fallbacks came before.
C19_CreatedStaysRetrievable ==
    (vlast.op = "get" /\ vlast.vs_ok /\ vlast.db_ok
       /\ (vlast.pre_chroma \/ vlast.pre_mysql)) => vlast.status # None

\* Concurrent calls on a session without user messages, all of them ended.
RaceOver ==
    /\ race.prior = 0
    /\ Len(race.pc) >= 2
    /\ \A c \in DOMAIN race.pc : race.pc[c] = "done"

\* Every rename a call attempted was committed: a call that found a count
\* of 1 and went past the rename has renamed the session.
RenameWritesSucceeded ==
    \A c \in DOMAIN race.pc :
       (race.seen[c] = 1 /\ race.pc[c] \in {"reply", "done"}) => race.renamed[c]

\* C20 as stated: two concurrent chat calls on a session without user
\* messages that race (both store their user message before either counts)
\* both find theirs to be the first user message and both rename the
\* session, whenever the rename writes themselves succeed.
C20_RacingCallsBothRename ==
    (RaceOver /\ race.stores_first /\ RenameWritesSucceeded)
       => \A c \in DOMAIN race.pc : race.seen[c] = 1 /\ race.renamed[c]

\* C20: of the concurrent chat calls on a session without user messages at
\* most one finds a count of 1 and renames the session, namely the one
\* whose user message was committed first; when all store before any
\* counts and the count reads what is committed, none renames.
C20_AtMostOneCallRenames ==
    race.prior = 0 =>
       /\ \A c, d \in DOMAIN race.pc : (race.seen[c] = 1 /\ race.seen[d] = 1) => c = d
       /\ \A c \in DOMAIN race.pc : race.renamed[c] => (race.seen[c] = 1 /\ race.position[c] = 1)
       /\ (RaceOver /\ race.stores_first /\ race.isolation = "read_committed") =>
             /\ \A c \in DOMAIN race.pc : ~race.renamed[c]
             /\ race.name = 0

C20_Witness ==
    /\ RaceOver
    /\ race.stores_first
    /\ race.isolation = "read_committed"
    /\ \A c \in DOMAIN race.pc : race.seen[c] = 2 /\ ~race.renamed[c]
    /\ race.name = 0

\* C21: a legacy send_message call that ends in failure leaves the message
\* history of its conversation as it was before the call (empty for a
\* conversation the call created), provided nothing else touched that
\* conversation while the call waited for the provider; a call rejected by
\* validation changes no conversation.
C21_FailedSendLeavesHistory ==
    [][/\ (lg'.calls = lg.calls + 1 /\ lg'.pending = lg.pending /\ lg'.failed)
          => conversations' = conversations
       /\ \A s \in SendSlots :
             (/\ lg.pending[s].pc = "awaiting"
              /\ lg'.pending[s].pc = "idle"
              /\ lg'.failed
              /\ lg.pending[s].alone
              /\ ConversationExists(conversations', lg.pending[s].conv))
             => conversations'[lg.pending[s].conv] = lg.pending[s].pre]_vars

\* C22: an update leaves the document in the backend that held it: after
\* update_document the vector store still holds a document it held before
\* the call, and so does the Embedding table.
C22_UpdateNeverLosesDocument ==
    vlast.op = "update" =>
       /\ vlast.pre_chroma => vlast.id \in repo.chroma
       /\ vlast.pre_mysql => vlast.id \in repo.mysql

\* C24: a get_document that finds the document right after a metadata-only
\* update returned a response gives the metadata the callers supplied before
\* overlaid with the new keys, and the content the document had.
C24_MetadataOnlyUpdateIsReadBack ==
    (md.last.op = "get_document" /\ md.last.status = "found"
       /\ md.pending.kind = "metadata_only") =>
       /\ md.last.metadata = md.pending.metadata
       /\ md.last.content = md.pending.content

\* C23: a search_similar that returns reports used_fallback = true exactly
\* when its results came from the Embedding table and not from the vector
\* store.
C23_UsedFallbackIffRelationalResults ==
    (vlast.op = "search" /\ vlast.status = "returned") =>
       (vlast.used_fallback <=> vlast.db_called)

\* C25: all rows created as threaded replies to the same parent message
\* carry the same thread_id. create_threaded_message stores no row on any
\* path, so no reachable state holds a reply and the property has no case
\* to act on.
C25_RepliesToOneParentShareThread ==
    \A i, j \in DOMAIN th.rows :
       (th.rows[i].parent_message_id # NoParent
          /\ th.rows[i].parent_message_id = th.rows[j].parent_message_id)
       => th.rows[i].thread_id = th.rows[j].thread_id

\* No stored row is a threaded reply.
C25_NoReplyIsEverStored ==
    \A i \in DOMAIN th.rows :
       th.rows[i].parent_message_id = NoParent /\ th.rows[i].thread_id = NoThread

\* The members of a strategies list that the loop of optimize_context has a
\* branch for, in the order given.
HandledStrategies(strategies) ==
    SelectSeq(strategies, LAMBDA s : s \in {"remove_redundant", "compress_repetitive",
                                            "prioritize_quality", "truncate_oldest"})

StartsWith(s, prefix) ==
    /\ Len(prefix) <= Len(s)
    /\ \A i \in 1..Len(prefix) : prefix[i] = s[i]

\* The context after the first n of the given strategies were applied.
RECURSIVE ContextAfter(_, _, _, _)
ContextAfter(strategies, c, target, n) ==
    IF n = 0 THEN c
    ELSE ApplyStrategy(strategies[n], ContextAfter(strategies, c, target, n - 1), target)

\* C26 as stated: strategies_applied is always a prefix of remove-redundant,
\* compress-repetitive, prioritize-by-quality, truncate-oldest.
C26_AppliedIsPrefixOfFixedOrder ==
    opt.pc = "done" =>
       StartsWith(<<"remove_redundant", "compress_repetitive", "prioritize_quality",
                    "truncate_oldest">>, opt.result.strategies_applied)

\* C26: strategies_applied is a prefix of the strategies optimize_context
\* was given (of the four it handles, in the order given), which is the
\* order remove-redundant, compress-repetitive, prioritize-by-quality,
\* truncate-oldest when none was given; every strategy applied found the
\* running token count above the target, and the loop stopped short only at
\* a count at or below the target.
C26_AppliedIsPrefixOfGivenOrder ==
    opt.pc = "done" =>
       LET applied == opt.result.strategies_applied
           handled == HandledStrategies(opt.strategies)
       IN  /\ StartsWith(handled, applied)
           /\ opt.strategies = DefaultStrategies =>
                 StartsWith(<<"remove_redundant", "compress_repetitive",
                              "prioritize_quality", "truncate_oldest">>, applied)
           /\ \A k \in 1..Len(applied) :
                 ContextAfter(handled, opt.context, opt.target, k - 1).total_tokens
                    > opt.target
           /\ Len(applied) < Len(handled) =>
                 ContextAfter(handled, opt.context, opt.target, Len(applied)).total_tokens
                    <= opt.target

C26_Witness ==
    /\ opt.pc = "done"
    /\ opt.strategies = DefaultStrategies
    /\ opt.result.strategies_applied = <<"remove_redundant">>
    /\ opt.result.optimized_tokens < opt.result.original_tokens

\* a is b with some elements left out: the elements of a occur in b in the
\* same relative order.
RECURSIVE IsSubsequence(_, _)
IsSubsequence(a, b) ==
    IF a = <<>> THEN TRUE
    ELSE IF b = <<>> THEN FALSE
    ELSE IF Head(a) = Head(b) THEN IsSubsequence(Tail(a), Tail(b))
    ELSE IsSubsequence(a, Tail(b))

\* C27: the messages of the context optimize_context returns are messages
\* of the input context in the same relative order.
C27_MessagesKeepOrder ==
    opt.pc = "done" =>
       IsSubsequence(opt.result.optimized_context.messages, opt.context.messages)

C27_Witness ==
    /\ opt.pc = "done"
    /\ "truncate_oldest" \in {opt.result.strategies_applied[i] :
                                i \in DOMAIN opt.result.strategies_applied}
    /\ opt.result.optimized_context # opt.context
    /\ Len(opt.result.optimized_context.messages) >= 2

\* The stored messages of the session that precede the message being
\* answered, as prompt turns.
PrecedingTurns ==
    LET rows == SelectSeq(bp.stored, LAMBDA m : m.id < bp.current)
    IN  [i \in DOMAIN rows |-> PromptTurn(rows[i])]

\* C28 as stated: when the history was read, the prompt is the system
\* message, the 8 most recent stored messages that precede the message being
\* answered (all of them when there are fewer) and the current user message.
C28_PromptHasEightPreceding ==
    (bp.prompt # <<>> /\ bp.history_ok) =>
       bp.prompt = <<SystemTurn>> \o LastN(PrecedingTurns, 8)
                      \o <<[role |-> "user", id |-> bp.current]>>

SystemMessagesOf(prompt) == SelectSeq(prompt, LAMBDA m : m.role = "system")

\* C29: every prompt rendered from a conversation context starts with
\* exactly one system message, which the truncation pass keeps.
C29_PromptStartsWithOneSystemMessage ==
    cp.pc \in {"returned", "raised"} =>
       /\ cp.prompt # <<>>
       /\ cp.prompt[1].role = "system"
       /\ Len(SystemMessagesOf(cp.prompt)) = 1
       /\ SystemMessagesOf(cp.prompt) = SystemMessagesOf(cp.built)

\* C30: every insurance tool call that opened a database connection has, when
\* it returns, no cursor and no connection left open, whether it succeeded,
\* met a database error or met any other error.
C30_OpenedConnectionIsReleased ==
    (cn.pc = "returned" /\ cn.opened) =>
       /\ cn.cursor # "open"
       /\ cn.conn # "open"
       /\ cn.result \in {"rows", "success", "unknown_tool", "required", "mysql_error", "error"}

C30_Witness ==
    /\ cn.pc = "returned"
    /\ cn.opened
    /\ cn.result = "mysql_error"
    /\ cn.cursor = "closed"
    /\ cn.conn = "closed"

====
